---- MODULE Spec2Model ----
(***************************************************************************)
(* Model of anuga's Geo_reference (coordinate_transforms/geo_reference.py) *)
(* and Geospatial_data (geospatial_data/geospatial_data.py).               *)
(*                                                                         *)
(* Numeric arrays are records [shape, flat]: the shape tuple and the       *)
(* row-major data, as in Numeric.  Coordinates are integers (a grid of     *)
(* whole units); on such values allclose(., 0) is equality with 0.         *)
(* Objects live in heaps indexed by identity: refs for Geo_reference       *)
(* objects, sets for the Geospatial_data objects bound to the program's    *)
(* names.  A call leaves its outcome in last until the caller takes it.    *)
(* The file system is fs: the content of every path the program uses       *)
(* (lines of fields for text, variables for NetCDF) and the number of      *)
(* file handles that were opened and not closed.                           *)
(***************************************************************************)
EXTENDS Integers, Sequences, FiniteSets, TLC

VARIABLES refs, sets, last, fs

vars == <<refs, sets, last, fs>>

----------------------------------------------------------------------------
(* Bounds of the model *)

\* Geo_reference objects a program of the transform calls creates
MaxUserRefs == 2
\* origins and coordinates of input points range over 0..MaxCoord
MaxCoord == 1
\* rows of a point array given to a transform
MaxRows == 2
\* points a Geospatial_data object may hold (caps repeated merging)
MaxLen == 3

----------------------------------------------------------------------------
(* Values *)

DEFAULT_ZONE == -1

\* the unset zone and two concrete UTM zones
Zones == {DEFAULT_ZONE, 55, 56}

Coords == 0..MaxCoord

\* the names a program binds Geospatial_data objects to: two operands and
\* the result of the last derivation
Names == {"A", "B", "C"}

\* identities of Geo_reference objects: one per name suffices, since an
\* object no name refers to is collected
RefIds == 1..Cardinality(Names)

\* the None argument where an object identity is expected
None == 0

Arr(shape, flat) == [shape |-> shape, flat |-> flat]

\* placeholder value of a call that raised
NoArr == Arr(<<0>>, <<>>)

Rank(a) == Len(a.shape)

\* a[i, j] of a rank-2 array, 1-based
At(a, i, j) == a.flat[(i - 1) * a.shape[2] + j]

\* points[:, col] += d on a rank-2 array (col is 0-based, as in the source)
AddColumn(a, col, d) ==
    [a EXCEPT !.flat = [k \in DOMAIN a.flat |->
        IF (k - 1) % a.shape[2] = col THEN a.flat[k] + d ELSE a.flat[k]]]

\* Numeric.reshape(points, (1,2))
reshape12(a) == Arr(<<1, 2>>, a.flat)

\* Numeric.concatenate along axis 0 of two rank-2 arrays of equal width
concatenate(a, b) == Arr(<<a.shape[1] + b.shape[1], a.shape[2]>>, a.flat \o b.flat)

Ok(v) == [err |-> "", val |-> v]

Raise(e) == [err |-> e, val |-> NoArr]

\* anuga.utilities.numerical_tools.ensure_numeric(A, Float): a new Float array
\* with the shape and the values of A (Numeric's array(A, typecode) copies)
ensure_numeric(A) == A

----------------------------------------------------------------------------
(* Geo_reference *)

NoRef == [live |-> FALSE, zone |-> DEFAULT_ZONE, xllcorner |-> 0, yllcorner |-> 0]

\* Geo_reference.__init__ without a file: the fields are the arguments
Geo_reference(zone, xllcorner, yllcorner) ==
    [live |-> TRUE, zone |-> zone, xllcorner |-> xllcorner, yllcorner |-> yllcorner]

\* a Geo_reference object together with its identity; id 0 is a temporary
\* that is identical to no other object
Obj(id, g) == [id |-> id, g |-> g]

Is(a, b) == a.id = b.id /\ a.id # 0

NoneObj == Obj(None, NoRef)

IsNone(o) == o.id = None /\ ~o.g.live

Live(R) == {i \in RefIds : R[i].live}

\* the object with identity i on the heap R; None stays None
Deref(R, i) == IF i = None THEN NoneObj ELSE Obj(i, R[i])

\* Geo_reference.is_absolute: allclose([xllcorner, yllcorner], 0)
is_absolute(g) == g.xllcorner = 0 /\ g.yllcorner = 0

\* a faulty change_points_geo_ref that never adds the origin of points_geo_ref
change_points_geo_ref_noadd(self, points, points_geo_ref) ==
    LET p0 == ensure_numeric(points) IN
    IF Rank(p0) = 1 /\ Len(p0.flat) # 2 THEN Raise("AssertionError")
    ELSE
      LET p1 == IF Rank(p0) = 1 THEN reshape12(p0) ELSE p0 IN
      IF Rank(p1) # 2 THEN Raise("TypeError")
      ELSE IF p1.shape[2] # 2 THEN Raise("AssertionError")
      ELSE IF ~Is(points_geo_ref, self)
           THEN Ok(AddColumn(AddColumn(p1, 0, -self.g.xllcorner), 1, -self.g.yllcorner))
           ELSE Ok(p1)

\* Geo_reference.change_points_geo_ref(points, points_geo_ref)
change_points_geo_ref(self, points, points_geo_ref) ==
    LET p0 == ensure_numeric(points) IN
    IF Rank(p0) = 1 /\ Len(p0.flat) # 2 THEN Raise("AssertionError")
    ELSE
      LET p1 == IF Rank(p0) = 1 THEN reshape12(p0) ELSE p0 IN
      \* '%d x %d' % points.shape needs exactly two dimensions
      IF Rank(p1) # 2 THEN Raise("TypeError")
      ELSE IF p1.shape[2] # 2 THEN Raise("AssertionError")
      ELSE IF ~Is(points_geo_ref, self)
           THEN LET p2 == IF ~IsNone(points_geo_ref)
                          THEN AddColumn(AddColumn(p1, 0, points_geo_ref.g.xllcorner),
                                         1, points_geo_ref.g.yllcorner)
                          ELSE p1
                IN Ok(AddColumn(AddColumn(p2, 0, -self.g.xllcorner), 1, -self.g.yllcorner))
           ELSE Ok(p1)

\* a faulty get_absolute that adds the origins to the wrong columns
get_absolute_swapped(self, points) ==
    LET p0 == ensure_numeric(points) IN
    IF Rank(p0) = 1 /\ Len(p0.flat) # 2 THEN Raise("ShapeError")
    ELSE IF Rank(p0) # 2 THEN Raise("TypeError")
    ELSE IF p0.shape[2] # 2 THEN Raise("ShapeError")
    ELSE IF ~is_absolute(self.g)
         THEN Ok(AddColumn(AddColumn(p0, 0, self.g.yllcorner), 1, self.g.xllcorner))
         ELSE Ok(p0)

\* Geo_reference.get_absolute(points)
get_absolute(self, points) ==
    LET p0 == ensure_numeric(points) IN
    IF Rank(p0) = 1 /\ Len(p0.flat) # 2 THEN Raise("ShapeError")
    \* '%d x %d' % points.shape needs exactly two dimensions
    ELSE IF Rank(p0) # 2 THEN Raise("TypeError")
    ELSE IF p0.shape[2] # 2 THEN Raise("ShapeError")
    ELSE IF ~is_absolute(self.g)
         THEN Ok(AddColumn(AddColumn(p0, 0, self.g.xllcorner), 1, self.g.yllcorner))
         ELSE Ok(p0)

\* a faulty reconcile_zones that leaves an unset zone unset
reconcile_zones_keep(R, self, other) ==
    IF R[self].zone = R[other].zone
       \/ (R[self].zone = DEFAULT_ZONE /\ R[other].zone = DEFAULT_ZONE)
    THEN [err |-> "", refs |-> R]
    ELSE IF R[self].zone = DEFAULT_ZONE
    THEN [err |-> "", refs |-> R]
    ELSE IF R[other].zone = DEFAULT_ZONE
    THEN [err |-> "", refs |-> [R EXCEPT ![other].zone = R[self].zone]]
    ELSE [err |-> "ANUGAError", refs |-> R]

\* a faulty reconcile_zones that overwrites a concrete zone instead of failing
reconcile_zones_force(R, self, other) ==
    IF R[self].zone = R[other].zone
       \/ (R[self].zone = DEFAULT_ZONE /\ R[other].zone = DEFAULT_ZONE)
    THEN [err |-> "", refs |-> R]
    ELSE IF R[self].zone = DEFAULT_ZONE
    THEN [err |-> "", refs |-> [R EXCEPT ![self].zone = R[other].zone]]
    ELSE [err |-> "", refs |-> [R EXCEPT ![other].zone = R[self].zone]]

\* Geo_reference.reconcile_zones(other) on the heap R; self and other are
\* identities
reconcile_zones(R, self, other) ==
    IF R[self].zone = R[other].zone
       \/ (R[self].zone = DEFAULT_ZONE /\ R[other].zone = DEFAULT_ZONE)
    THEN [err |-> "", refs |-> R]
    ELSE IF R[self].zone = DEFAULT_ZONE
    THEN [err |-> "", refs |-> [R EXCEPT ![self].zone = R[other].zone]]
    ELSE IF R[other].zone = DEFAULT_ZONE
    THEN [err |-> "", refs |-> [R EXCEPT ![other].zone = R[self].zone]]
    ELSE [err |-> "ANUGAError", refs |-> R]

----------------------------------------------------------------------------
(* Geospatial_data *)

AttrNames == {"attribute", "elevation", "friction"}

\* attributes: None, or a dictionary from the names in keys to 1-d arrays
\* (vals of a name that is no key is the empty sequence)
NoAttributes == [none |-> TRUE, keys |-> {}, vals |-> [k \in AttrNames |-> <<>>]]

Dict(keys, vals) ==
    [none |-> FALSE, keys |-> keys,
     vals |-> [k \in AttrNames |-> IF k \in keys THEN vals[k] ELSE <<>>]]

\* a Geospatial_data object; geo_reference is the identity of the
\* Geo_reference object it holds
NoSet == [live |-> FALSE, data_points |-> NoArr, attributes |-> NoAttributes,
          geo_reference |-> None, default_attribute_name |-> ""]

\* None where an array of points is expected
NonePoints == Arr(<<>>, <<>>)

\* Geospatial_data.check_data_points
check_data_points(data_points) ==
    IF data_points = NonePoints THEN Raise("ValueError")
    ELSE LET p == ensure_numeric(data_points) IN
         IF Rank(p) # 2 THEN Raise("AssertionError")
         ELSE IF p.shape[2] # 2 THEN Raise("AssertionError")
         ELSE Ok(p)

\* Geospatial_data.set_attributes; the argument is None, a single sequence
\* (kind "list", held under the name "attribute") or a dictionary
set_attributes(attributes) ==
    IF attributes.kind = "None" THEN NoAttributes
    ELSE IF attributes.kind # "dict"
         THEN Dict({"attribute"}, [k \in AttrNames |-> attributes.vals["attribute"]])
         ELSE Dict(attributes.keys, attributes.vals)

\* a faulty get_data_points that always returns the stored points
get_data_points_raw(R, self, absolute, geo_reference) ==
    Ok(self.data_points)

\* Geospatial_data.get_data_points(absolute, geo_reference)
get_data_points(R, self, absolute, geo_reference) ==
    IF absolute /\ IsNone(geo_reference)
    THEN get_absolute(Deref(R, self.geo_reference), self.data_points)
    ELSE IF ~IsNone(geo_reference)
    THEN change_points_geo_ref(geo_reference, self.data_points, Deref(R, self.geo_reference))
    ELSE Ok(self.data_points)

\* anuga.utilities.numerical_tools.ensure_numeric(A, Float) returns a new
\* array: what is added in place to its result does not reach A
ensure_numeric_copies == TRUE

\* a faulty get_data_points whose transforms work on the stored array
data_points_after_shared(R, self, absolute, geo_reference) ==
    LET r == get_data_points(R, self, absolute, geo_reference)
    IN IF r.err = "" THEN r.val ELSE self.data_points

\* self.data_points after get_data_points(absolute, geo_reference):
\* get_absolute and change_points_geo_ref add the origins in place
\* (points[:,0] += ...) to the array ensure_numeric made of self.data_points
data_points_after(R, self, absolute, geo_reference) ==
    IF ensure_numeric_copies THEN self.data_points
    ELSE data_points_after_shared(R, self, absolute, geo_reference)

\* the objects S with p as the stored points of the object bound to n
Touched(S, n, p) == [S EXCEPT ![n].data_points = p]

\* a faulty set_geo_reference that keeps the stored points as they are
set_geo_reference_norebase(R, self, geo_reference) ==
    LET g == IF IsNone(geo_reference)
             THEN Obj(0, Geo_reference(DEFAULT_ZONE, 0, 0))
             ELSE geo_reference
    IN [err |-> "", data_points |-> self.data_points, geo_reference |-> g]

\* Geospatial_data.set_geo_reference(geo_reference): the points to store and
\* the Geo_reference object to hold (the argument is always None or a
\* Geo_reference, so the isinstance test passes)
set_geo_reference(R, self, geo_reference) ==
    LET g == IF IsNone(geo_reference)
             THEN Obj(0, Geo_reference(DEFAULT_ZONE, 0, 0))
             ELSE geo_reference
        p == IF self.geo_reference # None
             THEN get_data_points(R, self, TRUE, g)
             ELSE Ok(self.data_points)
    IN [err |-> p.err, data_points |-> p.val, geo_reference |-> g]

\* Geospatial_data.__init__ from points in memory (file_name, delimiter,
\* latitudes and longitudes all None): the new object and the Geo_reference
\* object it holds
Geospatial_data(R, data_points, attributes, geo_reference, default_attribute_name) ==
    LET c == check_data_points(data_points) IN
    IF c.err # "" THEN [err |-> c.err, obj |-> NoSet, geo_reference |-> NoneObj]
    ELSE
      LET s1 == [NoSet EXCEPT !.live = TRUE, !.data_points = c.val,
                              !.attributes = set_attributes(attributes)]
          g == set_geo_reference(R, s1, geo_reference)
      IN IF g.err # "" THEN [err |-> g.err, obj |-> NoSet, geo_reference |-> NoneObj]
         ELSE [err |-> "",
               obj |-> [s1 EXCEPT !.data_points = g.data_points,
                                  !.default_attribute_name = default_attribute_name],
               geo_reference |-> g.geo_reference]

\* a faulty add_xll that takes the origin of self
add_xll_self(R, self, other) == R[self.geo_reference].xllcorner

\* __add__, lines 410-413: the smaller x-origin of the two operands
add_xll(R, self, other) ==
    IF R[self.geo_reference].xllcorner <= R[other.geo_reference].xllcorner
    THEN R[self.geo_reference].xllcorner
    ELSE R[other.geo_reference].xllcorner

\* __add__, lines 415-418: the smaller y-origin of the two operands
add_yll(R, self, other) ==
    IF R[self.geo_reference].yllcorner <= R[other.geo_reference].yllcorner
    THEN R[self.geo_reference].yllcorner
    ELSE R[other.geo_reference].yllcorner

\* __add__, line 419: the Geo_reference of the result
add_new_geo_ref(R, self, other) ==
    Obj(0, Geo_reference(R[self.geo_reference].zone, add_xll(R, self, other),
                         add_yll(R, self, other)))

\* a faulty add_new_points that puts the points of other first
add_new_points_swapped(R, self, other, new_geo_ref) ==
    LET p1 == change_points_geo_ref(new_geo_ref, self.data_points, Deref(R, self.geo_reference))
        p2 == change_points_geo_ref(new_geo_ref, other.data_points, Deref(R, other.geo_reference))
    IN Ok(concatenate(p2.val, p1.val))

\* __add__, lines 423-440: both operands' stored points moved to new_geo_ref
\* and concatenated, self's first
add_new_points(R, self, other, new_geo_ref) ==
    LET r1 == get_data_points(R, self, FALSE, NoneObj)
        r2 == get_data_points(R, other, FALSE, NoneObj)
    IN IF r1.err # "" THEN r1
       ELSE IF r2.err # "" THEN r2
       ELSE LET p1 == change_points_geo_ref(new_geo_ref, r1.val, Deref(R, self.geo_reference))
                p2 == change_points_geo_ref(new_geo_ref, r2.val, Deref(R, other.geo_reference))
            IN IF p1.err # "" THEN p1
               ELSE IF p2.err # "" THEN p2
               ELSE Ok(concatenate(p1.val, p2.val))

NoAttrInput == [kind |-> "None", keys |-> {}, vals |-> [k \in AttrNames |-> <<>>]]

DictInput(keys, vals) ==
    [kind |-> "dict", keys |-> keys,
     vals |-> [k \in AttrNames |-> IF k \in keys THEN vals[k] ELSE <<>>]]

\* a faulty add_new_attributes that puts the values of other first
add_new_attributes_other_first(self, other) ==
    IF self.attributes.none
    THEN IF ~other.attributes.none
         THEN [err |-> "Exception", attributes |-> NoAttrInput]
         ELSE [err |-> "", attributes |-> NoAttrInput]
    ELSE IF self.attributes.keys # {} /\ other.attributes.none
    THEN [err |-> "AttributeError", attributes |-> NoAttrInput]
    ELSE IF \E x \in self.attributes.keys : x \notin other.attributes.keys
    THEN [err |-> "Exception", attributes |-> NoAttrInput]
    ELSE [err |-> "",
          attributes |-> DictInput(self.attributes.keys,
              [x \in AttrNames |-> other.attributes.vals[x] \o self.attributes.vals[x]])]

\* __add__, lines 442-462: the attributes of the sum, or the error raised
add_new_attributes(self, other) ==
    IF self.attributes.none
    THEN IF ~other.attributes.none
         THEN [err |-> "Exception", attributes |-> NoAttrInput]
         ELSE [err |-> "", attributes |-> NoAttrInput]
    \* other.attributes.has_key on None, at the first key of self
    ELSE IF self.attributes.keys # {} /\ other.attributes.none
    THEN [err |-> "AttributeError", attributes |-> NoAttrInput]
    ELSE IF \E x \in self.attributes.keys : x \notin other.attributes.keys
    THEN [err |-> "Exception", attributes |-> NoAttrInput]
    ELSE [err |-> "",
          attributes |-> DictInput(self.attributes.keys,
              [x \in AttrNames |-> self.attributes.vals[x] \o other.attributes.vals[x]])]

\* Geospatial_data.__add__(other): the heap after the zones were reconciled,
\* and the new object with the Geo_reference it holds, or the error raised
Geospatial_data__add__(R, self, other) ==
    LET z == reconcile_zones(R, self.geo_reference, other.geo_reference) IN
    IF z.err # "" THEN [err |-> z.err, refs |-> z.refs, obj |-> NoSet, geo_reference |-> NoneObj]
    ELSE
      LET R1 == z.refs
          new_geo_ref == Obj(0, Geo_reference(R1[self.geo_reference].zone,
                                              add_xll(R1, self, other),
                                              add_yll(R1, self, other)))
          new_points == add_new_points(R1, self, other, new_geo_ref)
          new_attributes == add_new_attributes(self, other)
      IN IF new_points.err # ""
         THEN [err |-> new_points.err, refs |-> R1, obj |-> NoSet, geo_reference |-> NoneObj]
         ELSE IF new_attributes.err # ""
         THEN [err |-> new_attributes.err, refs |-> R1, obj |-> NoSet, geo_reference |-> NoneObj]
         ELSE LET c == Geospatial_data(R1, new_points.val, new_attributes.attributes,
                                       new_geo_ref, "")
              IN [err |-> c.err, refs |-> R1, obj |-> c.obj, geo_reference |-> c.geo_reference]

----------------------------------------------------------------------------
(* Inputs of the transform calls *)

RECURSIVE SeqsOf(_, _)
\* all sequences over S of length n
SeqsOf(S, n) == IF n = 0 THEN {<<>>}
                ELSE {Append(q, x) : q \in SeqsOf(S, n - 1), x \in S}

\* N x 2 arrays of coordinates, N = 0..MaxRows
PointArrays == UNION {{Arr(<<n, 2>>, f) : f \in SeqsOf(Coords, 2 * n)} : n \in 0..MaxRows}

\* inputs that are not N x 2: a flat point, a flat triple, an N x 3 array
OddArrays == {Arr(<<2>>, <<0, 1>>), Arr(<<3>>, <<0, 1, 1>>), Arr(<<1, 3>>, <<0, 1, 1>>)}

\* None where a sequence of latitudes or longitudes is expected
NoneSeq == [none |-> TRUE, v |-> <<>>]

SomeSeq(v) == [none |-> FALSE, v |-> v]

\* the arguments of Geospatial_data.__init__ at their defaults; data_name
\* is data_points given as a string, file_name and delimiter "" are None
NoArgs == [data_points |-> Arr(<<>>, <<>>), data_name |-> "", attributes |-> NoAttrInput,
           geo_reference |-> NoneObj, file_name |-> "", delimiter |-> "",
           latitudes |-> NoneSeq, longitudes |-> NoneSeq, points_are_lats_longs |-> FALSE]

\* what a call of _get_mpi_cmd or get_mpi_flags found and did: run maps each
\* command to what _run_command met, ran lists the commands that were run, in
\* order, output is the string the probes gave and flags the result
NoMpi == [run |-> <<>>, platform |-> "", mpi_dir |-> "", sdk |-> FALSE,
          ran |-> <<>>, output |-> <<>>, flags |-> <<>>]

\* the outcome of a call: the method, the error raised ("" for none), the
\* receiver and the arguments, and the value returned.  name and name2 are
\* names of Geospatial_data objects, self and other identities of
\* Geo_reference objects, ref the Geo_reference argument itself; for a call
\* that reads or writes a file, inner is the error of the last parse and
\* opens the number of times the file was opened; args are the
\* arguments of a constructor call, mpi the record of a call in setup.py
NoCall == [op |-> "", err |-> "", name |-> "", name2 |-> "", self |-> None, other |-> None,
           ref |-> NoRef, absolute |-> FALSE, arg |-> NoArr, val |-> NoArr,
           file_name |-> "", delimiter |-> "", inner |-> "", opens |-> 0,
           args |-> NoArgs, mpi |-> NoMpi]

Call(op, self, other, absolute, arg, res) ==
    [NoCall EXCEPT !.op = op, !.err = res.err, !.self = self, !.other = other,
                   !.absolute = absolute, !.arg = arg, !.val = res.val]

SetCall(op, name, name2, g, absolute, arg, res) ==
    [NoCall EXCEPT !.op = op, !.err = res.err, !.name = name, !.name2 = name2,
                   !.other = g.id, !.ref = g.g,
                   !.absolute = absolute, !.arg = arg, !.val = res.val]

----------------------------------------------------------------------------
(* Files *)

\* a field of a line of text: the decimal text of a number (as str writes it
\* and float or int read it back) or any other word
Num(v) == [num |-> TRUE, v |-> v, s |-> ""]

Word(s) == [num |-> FALSE, v |-> 0, s |-> s]

\* a line of text: its fields joined by delim; mark tells how the line
\* begins: "#g" for '#g' or '#G', "#" for '#' and another character, ""
\* otherwise
Line(delim, mark, fields) == [delim |-> delim, mark |-> mark, fields |-> fields]

\* what readline returns at the end of the file: ''
EOF == Line("", "eof", <<>>)

\* TITLE = '#geo reference\n', the first line of the geo reference block
TITLE == Line(" ", "#g", <<Word("#geo"), Word("reference")>>)

\* the content of a NetCDF file: the variable 'points' if there is one, the
\* other variables, and the global attributes zone, xllcorner, yllcorner if
\* they are set
NoNc == [haspoints |-> FALSE, points |-> NoArr, attributes |-> NoAttrInput,
         geo_reference |-> NoneObj]

\* a path without a file
NoFile == [status |-> "absent", kind |-> "", lines |-> <<>>, nc |-> NoNc]

TextFile(lines) == [status |-> "ok", kind |-> "text", lines |-> lines, nc |-> NoNc]

NcFile(nc) == [status |-> "ok", kind |-> "nc", lines |-> <<>>, nc |-> nc]

\* a file that exists (access(file_name, F_OK) is true) and cannot be opened
LockedFile == [status |-> "unreadable", kind |-> "text", lines |-> <<>>, nc |-> NoNc]

\* the paths the program uses
FileNames == {"a.xya", "a.pts", "b.txt", "none.xya", "a.txt", "locked.xya", "space.xya",
              "marker.xya", "grid.xya", "zone.xya", "coord.xya", "cols.xya", "novar.pts"}

\* file_name[-4:]
Ext(file_name) ==
    IF file_name \in {"a.pts", "novar.pts"} THEN ".pts"
    ELSE IF file_name \in {"a.txt", "b.txt"} THEN ".txt"
    ELSE ".xya"

\* one point (1, 0) with elevation 7, written by hand
ARow == Line(",", "", <<Num(1), Num(0), Num(7)>>)

ATitle == Line(",", "", <<Word("elevation")>>)

\* the files that exist when the program starts
InitialFiles ==
    [f \in FileNames |->
       CASE f = "a.txt" -> TextFile(<<ATitle, ARow>>)
         [] f = "locked.xya" -> LockedFile
         \* fields separated by spaces
         [] f = "space.xya" -> TextFile(<<Line(" ", "", <<Word("elevation")>>),
                                         Line(" ", "", <<Num(1), Num(0), Num(7)>>)>>)
         \* a block that begins with '#foo'
         [] f = "marker.xya" -> TextFile(<<ATitle, ARow, Line(",", "#", <<Word("#foo")>>),
                                          Line(",", "", <<Num(56)>>), Line(",", "", <<Num(1)>>),
                                          Line(",", "", <<Num(0)>>)>>)
         \* a block that begins with '#grid'
         [] f = "grid.xya" -> TextFile(<<ATitle, ARow, Line(",", "#g", <<Word("#grid")>>),
                                        Line(",", "", <<Num(56)>>), Line(",", "", <<Num(1)>>),
                                        Line(",", "", <<Num(0)>>)>>)
         \* a zone that is no number
         [] f = "zone.xya" -> TextFile(<<ATitle, ARow, TITLE,
                                        Line(",", "", <<Word("abc")>>), Line(",", "", <<Num(1)>>),
                                        Line(",", "", <<Num(0)>>)>>)
         \* a coordinate that is no number
         [] f = "coord.xya" -> TextFile(<<ATitle, Line(",", "", <<Num(1), Word("x"), Num(7)>>)>>)
         \* a row with fewer columns than the title
         [] f = "cols.xya" -> TextFile(<<ATitle, Line(",", "", <<Num(1), Num(0)>>)>>)
         \* a NetCDF file without the variable 'points'
         [] f = "novar.pts" -> NcFile(NoNc)
         [] OTHER -> NoFile]

----------------------------------------------------------------------------
(* A program that creates Geo_reference objects and calls their methods *)

Init ==
    /\ refs = [i \in RefIds |-> NoRef]
    /\ sets = [n \in Names |-> NoSet]
    /\ last = NoCall
    /\ fs = [files |-> InitialFiles, open |-> 0]

\* the program is between calls
Idle == last.op = ""

\* the caller takes the outcome of the call
Return ==
    /\ ~Idle
    /\ last' = NoCall
    /\ UNCHANGED fs
    /\ UNCHANGED <<refs, sets>>

NewGeoReference ==
    /\ Idle
    /\ UNCHANGED fs
    /\ Cardinality(Live(refs)) < MaxUserRefs
    /\ \E z \in Zones, x \in Coords, y \in Coords :
        /\ LET i == CHOOSE k \in RefIds \ Live(refs) : \A j \in RefIds \ Live(refs) : k <= j
           IN /\ refs' = [refs EXCEPT ![i] = Geo_reference(z, x, y)]
              /\ last' = Call("Geo_reference", i, None, FALSE, NoArr, Ok(NoArr))
        /\ UNCHANGED sets

CallReconcileZones ==
    /\ Idle
    /\ UNCHANGED fs
    /\ \E i \in Live(refs), j \in Live(refs) :
        LET r == reconcile_zones(refs, i, j)
        IN /\ refs' = r.refs
           \* arg keeps the two zones the call found
           /\ last' = Call("reconcile_zones", i, j, FALSE,
                           Arr(<<2>>, <<refs[i].zone, refs[j].zone>>),
                           [err |-> r.err, val |-> NoArr])
           /\ UNCHANGED sets

CallChangePointsGeoRef ==
    /\ Idle
    /\ UNCHANGED fs
    /\ \E i \in Live(refs), j \in Live(refs) \cup {None}, p \in PointArrays \cup OddArrays :
        /\ last' = Call("change_points_geo_ref", i, j, FALSE, p,
                        change_points_geo_ref(Deref(refs, i), p, Deref(refs, j)))
        /\ UNCHANGED <<refs, sets>>

CallGetAbsolute ==
    /\ Idle
    /\ UNCHANGED fs
    /\ \E i \in Live(refs), p \in PointArrays \cup OddArrays :
        /\ last' = Call("get_absolute", i, None, FALSE, p, get_absolute(Deref(refs, i), p))
        /\ UNCHANGED <<refs, sets>>

\* G.change_points_geo_ref(G.get_absolute(p), None)
CallRoundTrip ==
    /\ Idle
    /\ UNCHANGED fs
    /\ \E i \in Live(refs), p \in PointArrays :
        LET a == get_absolute(Deref(refs, i), p)
        IN /\ last' = Call("round_trip", i, None, FALSE, p,
                           IF a.err # "" THEN a
                           ELSE change_points_geo_ref(Deref(refs, i), a.val, NoneObj))
           /\ UNCHANGED <<refs, sets>>

NextGeo ==
    \/ NewGeoReference
    \/ CallReconcileZones
    \/ CallChangePointsGeoRef
    \/ CallGetAbsolute
    \/ CallRoundTrip
    \/ Return

SpecGeo == Init /\ [][NextGeo]_vars

----------------------------------------------------------------------------
(* A program that builds Geospatial_data objects and calls their methods *)

\* the names the program constructs objects under; "C" receives the sums
OperandNames == {"A", "B"}

Bound(S) == {n \in Names : S[n].live}

\* number of points of an array of points (0 for an array of another rank)
NumPoints(p) == IF Rank(p) = 2 THEN p.shape[1] ELSE 0

\* points given to the constructor: one point, two points, a flat point, None
DataPointInputs ==
    {Arr(<<1, 2>>, <<1, 0>>), Arr(<<2, 2>>, <<0, 1, 1, 1>>), Arr(<<2>>, <<0, 1>>), NonePoints}

AttrSeq(base, len) == [i \in 1..len |-> base + i]

\* a single sequence of len values given as the attributes
ListInput(n, len) ==
    [kind |-> "list", keys |-> {"attribute"},
     vals |-> [k \in AttrNames |-> IF k = "attribute" THEN AttrSeq(10 * n, len) ELSE <<>>]]

\* dictionaries over the names in K with n values each
DictInputs(n, K) ==
    {DictInput(L, [k \in AttrNames |->
                      IF k = "friction" THEN AttrSeq(10 * n + 5, n) ELSE AttrSeq(10 * n, n)])
     : L \in SUBSET K}

\* attributes given to the constructor with n points: None, a single
\* sequence of n or of n+1 values, and dictionaries over elevation and
\* friction with n values each
AttributeInputs(n) ==
    {NoAttrInput, ListInput(n, n), ListInput(n, n + 1)}
    \cup DictInputs(n, {"elevation", "friction"})

\* one choice of attributes, for programs that vary the geo-references:
\* elevation with n values
ElevationInput(n) == DictInputs(n, {"elevation"}) \ DictInputs(n, {})

\* a newly created Geo_reference object
NewGeoRefArgs == {Obj(0, Geo_reference(z, x, y)) : z \in Zones, x \in Coords, y \in Coords}

\* the Geo_reference objects the Geospatial_data objects hold
HeldGeoRefArgs(R) == {Obj(i, R[i]) : i \in Live(R)}

\* a Geo_reference argument: None, a newly created object, or the object an
\* existing Geospatial_data holds
GeoRefArgs(R) == {NoneObj} \cup NewGeoRefArgs \cup HeldGeoRefArgs(R)

\* fewer Geo_reference arguments, for programs that vary the attributes:
\* None, and two new objects that differ in zone and in both origins
FewGeoRefArgs ==
    {NoneObj, Obj(0, Geo_reference(55, MaxCoord, 0)), Obj(0, Geo_reference(56, 0, MaxCoord))}

\* Geo_reference objects some Geospatial_data of S holds
Held(S) == {S[n].geo_reference : n \in Bound(S)}

\* objects nothing refers to are collected
Collect(R, S) == [i \in RefIds |-> IF i \in Held(S) THEN R[i] ELSE NoRef]

\* bind name n to the object obj holding the Geo_reference g; a newly
\* created g takes the first identity no other name's object holds
Bind(R, S, n, obj, g) ==
    LET used == Held([S EXCEPT ![n] = NoSet])
        id == IF g.id # 0 THEN g.id
              ELSE CHOOSE k \in RefIds \ used : \A j \in RefIds \ used : k <= j
        S1 == [S EXCEPT ![n] = [obj EXCEPT !.geo_reference = id]]
    IN [refs |-> Collect([R EXCEPT ![id] = g.g], S1), sets |-> S1]

\* n = Geospatial_data(dp, att, g), for n among names, att among
\* atts[number of points of dp] and g among geos; the program builds its
\* operands before it derives objects from them
Construct(names, atts, geos) ==
    /\ Idle
    /\ UNCHANGED fs
    /\ ~sets["C"].live
    /\ \E n \in names, dp \in DataPointInputs, g \in geos :
      \E att \in atts[NumPoints(dp)] :
        /\ \E r \in {Geospatial_data(refs, dp, att, g, "")} :
              /\ last' = SetCall("Geospatial_data", n, "", g, FALSE, dp,
                                 [err |-> r.err, val |-> NoArr])
              /\ IF r.err = ""
                 THEN \E b \in {Bind(refs, sets, n, r.obj, r.geo_reference)} :
                          refs' = b.refs /\ sets' = b.sets
                 ELSE UNCHANGED <<refs, sets>>

\* n.set_geo_reference(g)
CallSetGeoReference ==
    /\ Idle
    /\ UNCHANGED fs
    /\ \E n \in Bound(sets), g \in GeoRefArgs(refs) :
        /\ \E r \in {set_geo_reference(refs, sets[n], g)} :
              \* arg keeps the points stored before the call
              /\ last' = SetCall("set_geo_reference", n, "", g, FALSE, sets[n].data_points,
                                 [err |-> r.err, val |-> NoArr])
              /\ IF r.err = ""
                 THEN \E b \in {Bind(refs, sets, n,
                                      [sets[n] EXCEPT !.data_points = r.data_points],
                                      r.geo_reference)} :
                          refs' = b.refs /\ sets' = b.sets
                 ELSE UNCHANGED <<refs, sets>>

\* n.get_data_points(absolute, g), for g among geos
CallGetDataPoints(geos) ==
    /\ Idle
    /\ UNCHANGED fs
    /\ \E n \in Bound(sets), absolute \in BOOLEAN, g \in geos :
        /\ last' = SetCall("get_data_points", n, "", g, absolute, sets[n].data_points,
                           get_data_points(refs, sets[n], absolute, g))
        /\ refs' = refs
        /\ sets' = Touched(sets, n, data_points_after(refs, sets[n], absolute, g))

\* C = a + b
CallAdd ==
    /\ Idle
    /\ UNCHANGED fs
    /\ \E a \in Bound(sets), b \in Bound(sets) :
        /\ NumPoints(sets[a].data_points) + NumPoints(sets[b].data_points) <= MaxLen
        /\ \E r \in {Geospatial_data__add__(refs, sets[a], sets[b])} :
              /\ last' = SetCall("__add__", a, b, NoneObj, FALSE,
                                 Arr(<<2>>, <<refs[sets[a].geo_reference].zone,
                                              refs[sets[b].geo_reference].zone>>),
                                 [err |-> r.err, val |-> NoArr])
              \* change_points_geo_ref of lines 426-432 on the stored points
              \* of a and of b
              /\ \E S \in {IF r.err = "ANUGAError" THEN sets
                            ELSE LET g == add_new_geo_ref(r.refs, sets[a], sets[b])
                                     S1 == Touched(sets, a,
                                              data_points_after(r.refs, sets[a], FALSE, g))
                                 IN Touched(S1, b, data_points_after(r.refs, S1[b], FALSE, g))} :
                 IF r.err = ""
                 THEN \E bd \in {Bind(r.refs, S, "C", r.obj, r.geo_reference)} :
                          refs' = bd.refs /\ sets' = bd.sets
                 ELSE refs' = r.refs /\ sets' = S

\* a program that merges objects with various geo-references
Next ==
    \/ Construct(OperandNames, [k \in 0..MaxRows |-> ElevationInput(k)], GeoRefArgs(refs))
    \/ CallGetDataPoints({NoneObj})
    \/ CallAdd
    \/ Return

Spec == Init /\ [][Next]_vars

\* a program that merges objects with various attributes
NextAttr ==
    \/ Construct(OperandNames, [k \in 0..MaxRows |-> AttributeInputs(k)], FewGeoRefArgs)
    \/ CallAdd
    \/ Return

SpecAttr == Init /\ [][NextAttr]_vars

\* a program that works on one object
NextOne ==
    \/ Construct({"A"}, [k \in 0..MaxRows |-> ElevationInput(k)], GeoRefArgs(refs))
    \/ CallSetGeoReference
    \/ CallGetDataPoints(GeoRefArgs(refs))
    \/ Return

SpecOne == Init /\ [][NextOne]_vars

----------------------------------------------------------------------------
(* Properties of Geo_reference, checked under SpecGeo *)

\* C4: reconcile_zones(self, other): equal zones (unset+unset included) change
\* nothing; when exactly one zone is the unset sentinel that reference adopts
\* the other's concrete zone; two concrete unequal zones fail with the
\* zone-mismatch error (ANUGAError) and change nothing; after every successful
\* call both references hold the same zone.
C4_ReconcileZonesRule ==
    last.op = "reconcile_zones" =>
        LET z1 == last.arg.flat[1]
            z2 == last.arg.flat[2]
            n1 == refs[last.self].zone
            n2 == refs[last.other].zone
        IN /\ z1 = z2 => last.err = "" /\ n1 = z1 /\ n2 = z2
           /\ (z1 # z2 /\ z1 = DEFAULT_ZONE) => last.err = "" /\ n1 = z2 /\ n2 = z2
           /\ (z1 # z2 /\ z2 = DEFAULT_ZONE) => last.err = "" /\ n1 = z1 /\ n2 = z1
           /\ (z1 # z2 /\ z1 # DEFAULT_ZONE /\ z2 # DEFAULT_ZONE)
                  => last.err = "ANUGAError" /\ n1 = z1 /\ n2 = z2
           /\ last.err = "" => n1 = n2

\* an unset reference has adopted the concrete zone of the other
C4_Witness ==
    /\ last.op = "reconcile_zones"
    /\ last.err = ""
    /\ last.arg.flat[1] = DEFAULT_ZONE
    /\ last.arg.flat[2] # DEFAULT_ZONE
    /\ refs[last.self].zone = last.arg.flat[2]

\* the origin a call of change_points_geo_ref translates from: that of
\* from_ref, or (0,0) when from_ref is None
FromX == IF last.other = None THEN 0 ELSE refs[last.other].xllcorner

FromY == IF last.other = None THEN 0 ELSE refs[last.other].yllcorner

\* C8: on an N x 2 input change_points_geo_ref(points, from_ref) returns, row
\* by row, points + from_ref.origin - self.origin; the points unchanged when
\* from_ref is self; points - self.origin when from_ref is None; the zones
\* of the two references play no part.
C8_ChangePointsGeoRef ==
    (last.op = "change_points_geo_ref" /\ last.arg \in PointArrays) =>
        /\ last.err = ""
        /\ last.val.shape = last.arg.shape
        /\ \A i \in 1..last.arg.shape[1] :
              /\ At(last.val, i, 1) = At(last.arg, i, 1) + FromX - refs[last.self].xllcorner
              /\ At(last.val, i, 2) = At(last.arg, i, 2) + FromY - refs[last.self].yllcorner
        /\ last.other = last.self => last.val = last.arg

\* points translated between two distinct references with different origins
\* and different zones
C8_Witness ==
    /\ last.op = "change_points_geo_ref"
    /\ last.err = ""
    /\ last.arg.shape = <<2, 2>>
    /\ last.other # None
    /\ last.other # last.self
    /\ refs[last.other].xllcorner # refs[last.self].xllcorner
    /\ refs[last.other].zone # refs[last.self].zone
    /\ last.val # last.arg

\* C9: for every Geo_reference G and every N x 2 array p,
\* G.change_points_geo_ref(G.get_absolute(p), None) returns p.
C9_RoundTrip ==
    last.op = "round_trip" => last.err = "" /\ last.val = last.arg

\* a round trip through a reference whose origin is not (0,0)
C9_Witness ==
    /\ last.op = "round_trip"
    /\ last.arg.shape = <<2, 2>>
    /\ refs[last.self].xllcorner # refs[last.self].yllcorner
    /\ refs[last.self].zone # DEFAULT_ZONE
    /\ last.val = last.arg

----------------------------------------------------------------------------
(* Properties of one Geospatial_data object, checked under SpecOne *)

\* the Geo_reference the object bound to n holds
GeoOf(R, S, n) == R[S[n].geo_reference]

\* absolute coordinates of the points of the object bound to n: the stored
\* points plus the origin of its Geo_reference
AbsX(R, S, n, i) == At(S[n].data_points, i, 1) + GeoOf(R, S, n).xllcorner

AbsY(R, S, n, i) == At(S[n].data_points, i, 2) + GeoOf(R, S, n).yllcorner

\* the step is a successful call of op
Did(op) == Idle /\ last'.op = op /\ last'.err = ""

\* C7: a call of set_geo_reference leaves the absolute coordinates returned by
\* get_data_points(absolute=True) as they were, and the points it stores are
\* those absolute coordinates minus the origin of the reference now held; so
\* both hold after any sequence of such calls.
C7_SetGeoReferenceKeepsAbsolute ==
    [][\A n \in Names :
         (Did("set_geo_reference") /\ last'.name = n) =>
           LET before == get_data_points(refs, sets[n], TRUE, NoneObj).val
               after == get_data_points(refs', sets'[n], TRUE, NoneObj).val
           IN /\ after = before
              /\ sets'[n].data_points.shape = before.shape
              /\ \A i \in 1..before.shape[1] :
                    /\ At(sets'[n].data_points, i, 1)
                         = At(before, i, 1) - GeoOf(refs', sets', n).xllcorner
                    /\ At(sets'[n].data_points, i, 2)
                         = At(before, i, 2) - GeoOf(refs', sets', n).yllcorner]_vars

\* set_geo_reference has rewritten the stored points for a new origin
C7_Witness ==
    /\ last.op = "set_geo_reference"
    /\ last.err = ""
    /\ last.arg # sets[last.name].data_points
    /\ GeoOf(refs, sets, last.name).xllcorner # GeoOf(refs, sets, last.name).yllcorner

\* C10: get_data_points(absolute, geo_reference) returns the stored points
\* plus the own origin when absolute is true and no reference is given (the
\* stored points themselves when the own origin is (0,0)); the stored points
\* plus the own origin minus R's origin when a reference R is given, whatever
\* absolute is; the stored points when absolute is false and no reference is
\* given.
C10_GetDataPoints ==
    last.op = "get_data_points" =>
        LET n == last.name
            stored == sets[n].data_points
            given == last.ref.live
        IN /\ last.err = ""
           /\ last.val.shape = stored.shape
           /\ (last.absolute /\ ~given) =>
                 /\ \A i \in 1..stored.shape[1] :
                       /\ At(last.val, i, 1) = AbsX(refs, sets, n, i)
                       /\ At(last.val, i, 2) = AbsY(refs, sets, n, i)
                 /\ (GeoOf(refs, sets, n).xllcorner = 0 /\ GeoOf(refs, sets, n).yllcorner = 0)
                       => last.val = stored
           /\ given =>
                 \A i \in 1..stored.shape[1] :
                    /\ At(last.val, i, 1) = AbsX(refs, sets, n, i) - last.ref.xllcorner
                    /\ At(last.val, i, 2) = AbsY(refs, sets, n, i) - last.ref.yllcorner
           /\ (~last.absolute /\ ~given) => last.val = stored

\* points were asked relative to a reference R other than the own one, with
\* absolute false, from an object whose origin is not (0,0)
C10_Witness ==
    /\ last.op = "get_data_points"
    /\ last.err = ""
    /\ ~last.absolute
    /\ last.ref.live
    /\ last.other # sets[last.name].geo_reference
    /\ last.ref.xllcorner # GeoOf(refs, sets, last.name).xllcorner
    /\ GeoOf(refs, sets, last.name).yllcorner # 0
    /\ last.val # sets[last.name].data_points

----------------------------------------------------------------------------
(* Properties of the merge, checked under Spec and SpecAttr *)

\* the attribute names of the object bound to n (none when attributes is None)
KeySet(S, n) == IF S[n].attributes.none THEN {} ELSE S[n].attributes.keys

\* the step is the call a + b, whatever its outcome
Added(a, b) == Idle /\ last'.op = "__add__" /\ last'.name = a /\ last'.name2 = b

\* C1: a + b fails whenever the attribute name sets of a and b differ, in
\* either operand order, and succeeds only when they are equal.
C1_MergeFailsOnDifferentNames ==
    [][\A a, b \in Names :
         (Added(a, b) /\ KeySet(sets, a) # KeySet(sets, b)) => last'.err # ""]_vars

Smaller(x, y) == CHOOSE m \in {x, y} : m <= x /\ m <= y

\* C3: the object a successful a + b returns holds a new Geo_reference whose
\* x-origin is the smaller of the operands' x-origins, whose y-origin is the
\* smaller of their y-origins and whose zone is the reconciled zone (the
\* concrete zone if either operand has one, otherwise unset); its stored
\* points are relative to that origin.
C3_MergeGeoReference ==
    [][\A a, b \in Names :
         (Added(a, b) /\ last'.err = "") =>
           LET ga == GeoOf(refs, sets, a)
               gb == GeoOf(refs, sets, b)
               g == GeoOf(refs', sets', "C")
               na == NumPoints(sets[a].data_points)
               nb == NumPoints(sets[b].data_points)
           IN /\ g.live
              /\ \A n \in Bound(sets') \ {"C"} :
                    sets'[n].geo_reference # sets'["C"].geo_reference
              /\ g.xllcorner = Smaller(ga.xllcorner, gb.xllcorner)
              /\ g.yllcorner = Smaller(ga.yllcorner, gb.yllcorner)
              /\ g.zone = IF ga.zone # DEFAULT_ZONE THEN ga.zone ELSE gb.zone
              /\ (gb.zone # DEFAULT_ZONE) => g.zone = gb.zone
              /\ \A i \in 1..na :
                    /\ At(sets'["C"].data_points, i, 1) = AbsX(refs, sets, a, i) - g.xllcorner
                    /\ At(sets'["C"].data_points, i, 2) = AbsY(refs, sets, a, i) - g.yllcorner
              /\ \A i \in 1..nb :
                    /\ At(sets'["C"].data_points, na + i, 1)
                         = AbsX(refs, sets, b, i) - g.xllcorner
                    /\ At(sets'["C"].data_points, na + i, 2)
                         = AbsY(refs, sets, b, i) - g.yllcorner]_vars

\* a sum whose origin takes its x from one operand and its y from the other,
\* and whose zone comes from the second operand
C3_Witness ==
    /\ last.op = "__add__"
    /\ last.err = ""
    /\ last.name = "A"
    /\ last.name2 = "B"
    /\ GeoOf(refs, sets, "A").xllcorner < GeoOf(refs, sets, "B").xllcorner
    /\ GeoOf(refs, sets, "B").yllcorner < GeoOf(refs, sets, "A").yllcorner
    /\ GeoOf(refs, sets, "C").xllcorner = GeoOf(refs, sets, "A").xllcorner
    /\ GeoOf(refs, sets, "C").yllcorner = GeoOf(refs, sets, "B").yllcorner
    /\ GeoOf(refs, sets, "C").zone # DEFAULT_ZONE

\* the calls that read an object or derive a new one from it
ReadOps == {"get_data_points", "get_attributes", "clip", "clip_outside", "__add__",
            "export_points_file"}

\* the step binds name n to a new object
Rebound(n) ==
    /\ last'.err = ""
    /\ \/ n = "C" /\ last'.op \in {"__add__", "clip"}
       \/ n = "B" /\ last'.op = "clip_outside"

\* the step is a call among ReadOps and the object bound to n stays bound
Read(n) == Idle /\ last'.op \in ReadOps /\ sets[n].live /\ ~Rebound(n)

\* C5, as claimed: a call of get_data_points, get_attributes, clip,
\* clip_outside, __add__ or export_points_file leaves the zone and the origin
\* of the geo_reference of every object as they were.
C5_GeoReferenceFixed ==
    [][\A n \in Names : Read(n) => GeoOf(refs', sets', n) = GeoOf(refs, sets, n)]_vars

\* C5, amended: such a call leaves the origin of every object's geo_reference
\* as it was, and its zone too, except that a + b sets an unset zone of the
\* Geo_reference object of a or of b to the concrete zone of the other.
C5_GeoReferenceFixedButZone ==
    [][\A n \in Names :
         Read(n) =>
           LET g == GeoOf(refs, sets, n)
               h == GeoOf(refs', sets', n)
           IN /\ sets'[n].geo_reference = sets[n].geo_reference
              /\ h.xllcorner = g.xllcorner
              /\ h.yllcorner = g.yllcorner
              /\ \/ h.zone = g.zone
                 \/ /\ g.zone = DEFAULT_ZONE
                    /\ last'.op = "__add__"
                    /\ \E m \in {last'.name, last'.name2} :
                          /\ GeoOf(refs, sets, m).zone # DEFAULT_ZONE
                          /\ h.zone = GeoOf(refs, sets, m).zone
                    /\ \E m \in {last'.name, last'.name2} :
                          sets[m].geo_reference = sets[n].geo_reference]_vars

\* a + b has set the unset zone of a's geo_reference to the zone of b
C5_Witness ==
    /\ last.op = "__add__"
    /\ last.name = "A"
    /\ last.name2 = "B"
    /\ sets["A"].geo_reference # sets["B"].geo_reference
    /\ last.arg.flat[1] = DEFAULT_ZONE
    /\ last.arg.flat[2] # DEFAULT_ZONE
    /\ GeoOf(refs, sets, "A").zone = last.arg.flat[2]
    /\ GeoOf(refs, sets, "A").xllcorner = MaxCoord

\* C6: in every Geospatial_data object every attribute sequence has as many
\* values as there are points.
C6_AttributesAligned ==
    \A n \in Bound(sets) :
        \A k \in KeySet(sets, n) :
            Len(sets[n].attributes.vals[k]) = NumPoints(sets[n].data_points)

----------------------------------------------------------------------------
(* Errors of the Geo_reference methods, checked under SpecGeo *)

\* the array is not an N x 2 layout: wrong rank or a width other than 2
NotNx2(p) == Rank(p) # 2 \/ p.shape[2] # 2

\* C11: change_points_geo_ref and get_absolute fail with ShapeError, and
\* with no other error, whenever the points given are not an N x 2 layout.
C11_ShapeErrorOnly ==
    (last.op \in {"change_points_geo_ref", "get_absolute"} /\ NotNx2(last.arg))
        => last.err = "ShapeError"

----------------------------------------------------------------------------
(* Reading and clipping one Geospatial_data object *)

\* None where an attribute name is expected
NoName == ""

\* Geospatial_data.get_attributes(attribute_name); first is the name that
\* self.attributes.keys() lists first (a dictionary keeps no order of
\* insertion, the order is that of the hash table)
get_attributes(self, attribute_name, first) ==
    IF attribute_name = NoName /\ self.default_attribute_name = NoName /\ self.attributes.none
    THEN Raise("AttributeError")
    ELSE IF attribute_name = NoName /\ self.default_attribute_name = NoName
            /\ self.attributes.keys = {}
    THEN Raise("IndexError")
    ELSE LET name == IF attribute_name # NoName THEN attribute_name
                     ELSE IF self.default_attribute_name # NoName
                          THEN self.default_attribute_name
                          ELSE first
         IN IF self.attributes.none THEN Raise("AttributeError")
            ELSE IF name \notin self.attributes.keys THEN Raise("AssertionError")
            ELSE Ok(Arr(<<Len(self.attributes.vals[name])>>, self.attributes.vals[name]))

\* n = Geospatial_data(dp, att, g, default_attribute_name=d), for n among
\* names, dp among dps, att among atts[number of points of dp], g among geos
\* and d among defaults
ConstructFrom(names, dps, atts, geos, defaults) ==
    /\ Idle
    /\ UNCHANGED fs
    /\ ~sets["C"].live
    /\ \E n \in names, dp \in dps, g \in geos, d \in defaults :
      \E att \in atts[NumPoints(dp)] :
        /\ \E r \in {Geospatial_data(refs, dp, att, g, d)} :
              /\ last' = SetCall("Geospatial_data", n, "", g, FALSE, dp,
                                 [err |-> r.err, val |-> NoArr])
              /\ IF r.err = ""
                 THEN \E b \in {Bind(refs, sets, n, r.obj, r.geo_reference)} :
                          refs' = b.refs /\ sets' = b.sets
                 ELSE UNCHANGED <<refs, sets>>

\* n.get_attributes(name), name possibly omitted
CallGetAttributes ==
    /\ Idle
    /\ UNCHANGED fs
    /\ \E n \in Bound(sets), name \in AttrNames \cup {NoName} :
       \E first \in IF sets[n].attributes.keys = {} THEN {NoName}
                    ELSE sets[n].attributes.keys :
        /\ last' = SetCall("get_attributes", n, name, NoneObj, FALSE, NoArr,
                           get_attributes(sets[n], name, first))
        /\ UNCHANGED <<refs, sets>>

\* twice the signed area of the triangle a, b, p: positive when p lies to
\* the left of the edge from a to b
Cross(px, py, ax, ay, bx, by) == (bx - ax) * (py - ay) - (by - ay) * (px - ax)

\* where point i (1-based) of points lies with respect to a convex polygon
\* whose vertices are listed counter-clockwise
Side(points, i, polygon) ==
    LET n == polygon.shape[1]
        c(k) == Cross(At(points, i, 1), At(points, i, 2),
                      At(polygon, k, 1), At(polygon, k, 2),
                      At(polygon, (k % n) + 1, 1), At(polygon, (k % n) + 1, 2))
    IN IF \E k \in 1..n : c(k) < 0 THEN "outside"
       ELSE IF \E k \in 1..n : c(k) = 0 THEN "boundary"
       ELSE "inside"

\* the indices 0..n-1 in order
Indices(n) == [i \in 1..n |-> i - 1]

\* anuga.utilities.polygon.inside_polygon(points, polygon, closed): the
\* indices of the points inside the polygon, those on its boundary included
\* when closed
inside_polygon(points, polygon, closed) ==
    SelectSeq(Indices(points.shape[1]),
              LAMBDA i : \/ Side(points, i + 1, polygon) = "inside"
                         \/ (closed /\ Side(points, i + 1, polygon) = "boundary"))

\* anuga.utilities.polygon.outside_polygon(points, polygon, closed): the
\* indices of the points that are not inside the polygon, those on its
\* boundary counted as inside when closed
outside_polygon(points, polygon, closed) ==
    SelectSeq(Indices(points.shape[1]),
              LAMBDA i : \/ Side(points, i + 1, polygon) = "outside"
                         \/ (~closed /\ Side(points, i + 1, polygon) = "boundary"))

\* Numeric.take(points, indices) on an N x 2 array
take2(points, indices) ==
    Arr(<<Len(indices), 2>>,
        [k \in 1..(2 * Len(indices)) |->
            At(points, indices[(k + 1) \div 2] + 1, 2 - (k % 2))])

\* Numeric.take(att, indices) on a sequence of values
take(att, indices) == [k \in 1..Len(indices) |-> att[indices[k] + 1]]

\* the new object made of the points and attribute values of self at the
\* indices given (lines 234-251 and 271-288)
clipped(R, self, points, indices) ==
    LET clipped_points == take2(points, indices)
        clipped_attributes ==
            DictInput(IF self.attributes.none THEN {} ELSE self.attributes.keys,
                      [k \in AttrNames |->
                          IF ~self.attributes.none /\ k \in self.attributes.keys
                          THEN take(self.attributes.vals[k], indices) ELSE <<>>])
        r == Geospatial_data(R, clipped_points, clipped_attributes, NoneObj, NoName)
    IN [err |-> r.err, obj |-> r.obj, geo_reference |-> r.geo_reference,
        indices |-> Arr(<<Len(indices)>>, indices)]

\* a faulty clip that selects among the stored points and returns them
clip_relative(R, self, polygon, closed) ==
    clipped(R, self, self.data_points, inside_polygon(self.data_points, polygon, closed))

\* Geospatial_data.clip(polygon, closed), polygon given as an array
clip(R, self, polygon, closed) ==
    LET points == get_data_points(R, self, TRUE, NoneObj).val
    IN clipped(R, self, points, inside_polygon(points, polygon, closed))

\* a faulty clip_outside that selects the points inside
clip_outside_inside(R, self, polygon, closed) ==
    LET points == get_data_points(R, self, TRUE, NoneObj).val
    IN clipped(R, self, points, inside_polygon(points, polygon, closed))

\* Geospatial_data.clip_outside(polygon, closed), polygon given as an array
clip_outside(R, self, polygon, closed) ==
    LET points == get_data_points(R, self, TRUE, NoneObj).val
    IN clipped(R, self, points, outside_polygon(points, polygon, closed))

\* convex polygons, vertices counter-clockwise: a triangle and the unit square
Polygons == {Arr(<<3, 2>>, <<0, 0, 3, 0, 0, 3>>), Arr(<<4, 2>>, <<0, 0, 1, 0, 1, 1, 0, 1>>)}

\* C = n.clip(polygon, closed), for n among names
CallClip(names) ==
    /\ Idle
    /\ UNCHANGED fs
    /\ \E n \in Bound(sets) \cap names, polygon \in Polygons, closed \in BOOLEAN :
       \E r \in {clip(refs, sets[n], polygon, closed)} :
        /\ last' = SetCall("clip", n, "", NoneObj, closed, polygon,
                           [err |-> r.err, val |-> r.indices])
        \* self.get_data_points() of line 238
        /\ \E S \in {Touched(sets, n, data_points_after(refs, sets[n], TRUE, NoneObj))} :
           IF r.err = ""
           THEN \E b \in {Bind(refs, S, "C", r.obj, r.geo_reference)} :
                    refs' = b.refs /\ sets' = b.sets
           ELSE refs' = refs /\ sets' = S

\* B = n.clip_outside(polygon, closed), for n among names, as the first call
\* of a statement or right after C = n.clip(...)
CallClipOutside(names) ==
    /\ Idle \/ (last.op = "clip" /\ last.err = "")
    /\ UNCHANGED fs
    /\ \E n \in Bound(sets) \cap names, polygon \in Polygons, closed \in BOOLEAN :
       \E r \in {clip_outside(refs, sets[n], polygon, closed)} :
        /\ last' = SetCall("clip_outside", n, "", NoneObj, closed, polygon,
                           [err |-> r.err, val |-> r.indices])
        \* self.get_data_points() of line 275
        /\ \E S \in {Touched(sets, n, data_points_after(refs, sets[n], TRUE, NoneObj))} :
           IF r.err = ""
           THEN \E b \in {Bind(refs, S, "B", r.obj, r.geo_reference)} :
                    refs' = b.refs /\ sets' = b.sets
           ELSE refs' = refs /\ sets' = S

\* points given to the constructor: three points that lie inside, outside and
\* on the boundary of the polygons, and one point
ClipPointInputs == {Arr(<<3, 2>>, <<1, 1, 2, 2, 0, 1>>), Arr(<<1, 2>>, <<1, 0>>)}

\* Geo_reference arguments: None and one with an origin off (0,0)
ClipGeoRefArgs == {NoneObj, Obj(0, Geo_reference(55, MaxCoord, 0))}

\* a program that builds one object, reads its attributes and clips it
NextRead ==
    \/ ConstructFrom({"A"}, ClipPointInputs, [k \in 0..MaxLen |-> AttributeInputs(k)],
                     ClipGeoRefArgs, {NoName, "elevation", "friction"})
    \/ CallGetAttributes
    \/ CallClip({"A"})
    \/ CallClipOutside({"A"})
    \/ Return

SpecRead == Init /\ [][NextRead]_vars

\* C12: get_attributes(name) returns the sequence stored under name; with
\* the name omitted it returns the sequence stored under
\* default_attribute_name if one is set, otherwise that of the first
\* attribute; whenever the name so resolved is no attribute of the object
\* (a default that is no attribute, an empty dictionary, no attributes) it
\* fails with the assertion on the missing attribute.
C12_GetAttributes ==
    last.op = "get_attributes" =>
        LET self == sets[last.name]
            names == IF last.name2 # NoName THEN {last.name2}
                     ELSE IF self.default_attribute_name # NoName
                          THEN {self.default_attribute_name}
                          ELSE KeySet(sets, last.name)
        IN IF names \cap KeySet(sets, last.name) # {}
           THEN /\ last.err = ""
                /\ \E k \in names : last.val.flat = self.attributes.vals[k]
           ELSE last.err = "AssertionError"

\* the values of a sequence
Range(s) == {s[i] : i \in DOMAIN s}

\* C13: for the same object, polygon and closed flag, the indices clip
\* selects and the indices clip_outside selects are disjoint and together
\* are all of 0..N-1, and the two results together have N points.
C13_ClipsPartition ==
    [][(/\ last.op = "clip"
        /\ last'.op = "clip_outside"
        /\ last'.name = last.name
        /\ last.name # "C"
        /\ last'.arg = last.arg
        /\ last'.absolute = last.absolute) =>
          LET N == NumPoints(sets[last.name].data_points)
          IN /\ last'.err = ""
             /\ Range(last.val.flat) \cap Range(last'.val.flat) = {}
             /\ Range(last.val.flat) \cup Range(last'.val.flat) = 0..(N - 1)
             /\ Len(last.val.flat) + Len(last'.val.flat) = N
             /\ NumPoints(sets'["C"].data_points) + NumPoints(sets'["B"].data_points) = N]_vars

\* A clipped inside C and outside B by the same polygon, each with some of its
\* three points
C13_Witness ==
    /\ last.op = "clip_outside"
    /\ last.name = "A"
    /\ sets["C"].live
    /\ sets["B"].live
    /\ sets["C"].data_points = clip(refs, sets["A"], last.arg, last.absolute).obj.data_points
    /\ NumPoints(sets["A"].data_points) = 3
    /\ NumPoints(sets["C"].data_points) > 0
    /\ NumPoints(sets["B"].data_points) > 0

\* the name clip and clip_outside assign their result to
ClipTarget(op) == IF op = "clip" THEN "C" ELSE "B"

\* C14: the object clip or clip_outside returns holds a new default
\* Geo_reference (zone unset, origin (0,0)); its points are the absolute
\* coordinates of the source at the selected indices, in increasing order of
\* index, and it has every attribute of the source, with the values at the
\* same indices in the same order.
C14_ClipResult ==
    [][\A n \in Names :
         (last'.op \in {"clip", "clip_outside"} /\ last'.op # last.op
            /\ last'.name = n /\ last'.err = "") =>
           LET t == ClipTarget(last'.op)
               ind == last'.val.flat
               c == sets'[t]
               g == GeoOf(refs', sets', t)
           IN /\ c.live
              /\ g = Geo_reference(DEFAULT_ZONE, 0, 0)
              /\ \A m \in Bound(sets') \ {t} : sets'[m].geo_reference # c.geo_reference
              /\ c.data_points.shape = <<Len(ind), 2>>
              /\ \A j \in 1..(Len(ind) - 1) : ind[j] < ind[j + 1]
              /\ \A j \in 1..Len(ind) :
                    /\ At(c.data_points, j, 1) = AbsX(refs, sets, n, ind[j] + 1)
                    /\ At(c.data_points, j, 2) = AbsY(refs, sets, n, ind[j] + 1)
              /\ ~c.attributes.none
              /\ c.attributes.keys = KeySet(sets, n)
              /\ \A k \in KeySet(sets, n) :
                    /\ Len(c.attributes.vals[k]) = Len(ind)
                    /\ \A j \in 1..Len(ind) :
                          c.attributes.vals[k][j] = sets[n].attributes.vals[k][ind[j] + 1]]_vars

\* two of the three points of an object with a Geo_reference off (0,0) and
\* two attributes, clipped into C
C14_Witness ==
    /\ last.op = "clip"
    /\ last.err = ""
    /\ last.name = "A"
    /\ GeoOf(refs, sets, "A").xllcorner = MaxCoord
    /\ GeoOf(refs, sets, "C").xllcorner = 0
    /\ NumPoints(sets["A"].data_points) = 3
    /\ last.val.flat = <<0, 2>>
    /\ KeySet(sets, "C") = {"elevation", "friction"}
    /\ Len(sets["C"].attributes.vals["friction"]) = 2

----------------------------------------------------------------------------
(* Files of points: the text format .xya and the NetCDF format .pts *)

\* line n of a file, EOF past its end
ReadLine(lines, n) == IF n \in DOMAIN lines THEN lines[n] ELSE EOF

\* clean_line(line, delimiter): the fields of the line split at delimiter; a
\* line of several fields joined by another delimiter is a single field
\* that is no number
clean_line(line, delimiter) ==
    IF line = EOF THEN <<>>
    ELSE IF Len(line.fields) <= 1 \/ line.delim = delimiter THEN line.fields
    ELSE <<Word("joined")>>

\* Geo_reference.read_ASCII(fd, read_title) with the three lines that follow
\* the title in the file.  int and float raise ValueError on a field that
\* is no number, which the handler for SyntaxError does not catch
read_ASCII(read_title, l1, l2, l3) ==
    IF read_title.mark # "#g" THEN [err |-> "TitleError", g |-> NoneObj]
    ELSE IF \E l \in {l1, l2, l3} :
                Len(clean_line(l, "\n")) # 1 \/ ~clean_line(l, "\n")[1].num
         THEN [err |-> "ValueError", g |-> NoneObj]
         ELSE [err |-> "",
               g |-> Obj(0, Geo_reference(l1.fields[1].v, l2.fields[1].v, l3.fields[1].v))]

\* the attribute dictionary after one more row: the value of column i is
\* appended to the list of att_names[i]
RECURSIVE AppendRow(_, _, _, _)
AppendRow(att_dict, att_names, numbers, i) ==
    IF i > Len(numbers) THEN att_dict
    ELSE AppendRow([att_dict EXCEPT ![att_names[i].s] = Append(@, numbers[i].v)],
                   att_names, numbers, i + 1)

\* the loop of _read_xya_file from line n on, and what follows it
RECURSIVE ReadRows(_, _, _, _, _, _)
ReadRows(lines, n, delimiter, att_names, points, att_dict) ==
    LET line == ReadLine(lines, n)
        numbers == clean_line(line, delimiter)
    IN IF Len(numbers) > 1 /\ line.mark \notin {"#g", "#"}
       THEN IF ~numbers[1].num \/ ~numbers[2].num
            THEN [err |-> "SyntaxError", closed |-> FALSE]
            ELSE IF Len(att_names) # Len(numbers) - 2
            THEN [err |-> "IOError", closed |-> TRUE]
            ELSE IF \E i \in 3..Len(numbers) : ~numbers[i].num
            THEN [err |-> "SyntaxError", closed |-> FALSE]
            ELSE ReadRows(lines, n + 1, delimiter, att_names,
                          points \o <<numbers[1].v, numbers[2].v>>,
                          AppendRow(att_dict, att_names, SubSeq(numbers, 3, Len(numbers)), 1))
       ELSE LET r == IF line = EOF THEN [err |-> "", g |-> NoneObj]
                     ELSE read_ASCII(line, ReadLine(lines, n + 1), ReadLine(lines, n + 2),
                                     ReadLine(lines, n + 3))
                keys == {k \in AttrNames : att_dict[k] # <<>>}
            IN IF r.err # "" THEN [err |-> r.err, closed |-> FALSE]
               ELSE [err |-> "", closed |-> FALSE,
                     pointlist |-> IF points = <<>> THEN Arr(<<0>>, <<>>)
                                   ELSE Arr(<<Len(points) \div 2, 2>>, points),
                     attributes |-> DictInput(keys, att_dict),
                     geo_reference |-> r.g]

\* _read_xya_file(fd, delimiter) on a file of the lines given
_read_xya_file(lines, delimiter) ==
    ReadRows(lines, 2, delimiter, clean_line(ReadLine(lines, 1), delimiter), <<>>,
             [k \in AttrNames |-> <<>>])

\* the lines _write_xya_file writes for the points 1..n of the array; order
\* lists pointattributes.keys() as the dictionary yields them
XyaRows(points, attributes, order, n) ==
    [i \in 1..n |->
        Line(",", "", <<Num(At(points, i, 1)), Num(At(points, i, 2))>>
                      \o [j \in 1..Len(order) |-> Num(attributes.vals[order[j]][i])])]

\* _write_xya_file(file_name, write_data_points, write_attributes,
\* write_geo_reference): the lines written and whether fd was closed.  A row
\* whose attribute value is missing raises IndexError and leaves fd open
_write_xya_file(points, attributes, geo_reference, order) ==
    LET N == points.shape[1]
        titlelist == Line(",", "", [j \in 1..Len(order) |-> Word(order[j])])
        short == {i \in 1..N : \E k \in attributes.keys : Len(attributes.vals[k]) < i}
    IN IF short # {}
       THEN LET i == CHOOSE i \in short : \A j \in short : i <= j
            IN [err |-> "IndexError", closed |-> FALSE,
                lines |-> <<titlelist>> \o XyaRows(points, attributes, order, i - 1)]
       ELSE [err |-> "", closed |-> TRUE,
             lines |-> <<titlelist>> \o XyaRows(points, attributes, order, N)
                       \o IF IsNone(geo_reference) THEN <<>>
                          \* Geo_reference.write_ASCII
                          ELSE <<TITLE, Line(",", "", <<Num(geo_reference.g.zone)>>),
                                 Line(",", "", <<Num(geo_reference.g.xllcorner)>>),
                                 Line(",", "", <<Num(geo_reference.g.yllcorner)>>)>>]

\* _write_pts_file(file_name, write_data_points, write_attributes,
\* write_geo_reference): the variables and global attributes of the file
_write_pts_file(points, attributes, geo_reference) ==
    [haspoints |-> TRUE, points |-> points,
     attributes |-> DictInput(attributes.keys, attributes.vals),
     \* Geo_reference.write_NetCDF
     geo_reference |-> geo_reference]

\* _read_pts_file(file_name) on a NetCDF file: fid.variables['points']
\* raises KeyError when there is no such variable, and fid stays open
_read_pts_file(nc) ==
    IF ~nc.haspoints THEN [err |-> "KeyError", closed |-> FALSE]
    ELSE [err |-> "", closed |-> TRUE, pointlist |-> nc.points,
          attributes |-> nc.attributes,
          \* Geo_reference.read_NetCDF; without the global attributes None
          geo_reference |-> IF IsNone(nc.geo_reference) THEN NoneObj
                            ELSE Obj(0, nc.geo_reference.g)]

\* anuga.utilities.anuga_exceptions: TitleError and ParsingError are
\* subclasses of IOError
IsIOError(e) == e \in {"IOError", "TitleError", "ParsingError"}

\* the outcome of import_points_file: the error raised, the error of the
\* last parse, the number of times the file was opened, the handles left
\* open, and what was read
Imported(err, inner, opens, leaked, r) ==
    [err |-> err, inner |-> inner, opens |-> opens, leaked |-> leaked,
     data_points |-> IF err = "" THEN r.pointlist ELSE NoArr,
     attributes |-> IF err = "" THEN r.attributes ELSE NoAttrInput,
     geo_reference |-> IF err = "" THEN r.geo_reference ELSE NoneObj]

\* a faulty import_points_file that never parses a second time
import_points_file_once(files, file_name, delimiter) ==
    LET file == files[file_name] IN
    IF file.status = "absent" THEN Imported("IOError: does not exist", "", 0, 0, NoNc)
    ELSE IF Ext(file_name) = ".xya"
    THEN IF file.status = "unreadable" THEN Imported("UnboundLocalError", "", 1, 0, NoNc)
         ELSE LET r == _read_xya_file(file.lines, IF delimiter = "" THEN "," ELSE delimiter)
              IN IF r.err = "" THEN Imported("", "", 1, 0, r)
                 ELSE IF r.err \in {"IndexError", "ValueError", "SyntaxError"}
                 THEN Imported("IOError: Could not open file", r.err, 1, 0, r)
                 ELSE Imported("IOError: incorrect file format", r.err, 1, 0, r)
    ELSE Imported("IOError: Extension is unknown", "", 0, 0, NoNc)

\* Geospatial_data.import_points_file(file_name, delimiter); delimiter "" is
\* None
import_points_file(files, file_name, delimiter) ==
    LET file == files[file_name] IN
    IF file.status = "absent" THEN Imported("IOError: does not exist", "", 0, 0, NoNc)
    ELSE IF Ext(file_name) = ".xya"
    THEN \* open raises IOError, whose handler calls fd.close() on no fd
         IF file.status = "unreadable" THEN Imported("UnboundLocalError", "", 1, 0, NoNc)
         ELSE LET r1 == _read_xya_file(file.lines, IF delimiter = "" THEN "," ELSE delimiter)
                  again == delimiter = "" /\ r1.err = "TitleError"
                  r == IF again THEN _read_xya_file(file.lines, " ") ELSE r1
                  opens == IF again THEN 2 ELSE 1
              IN IF r.err = "" THEN Imported("", "", opens, 0, r)
                 ELSE IF r.err \in {"IndexError", "ValueError", "SyntaxError"}
                 THEN Imported("IOError: Could not open file", r.err, opens, 0, r)
                 ELSE IF IsIOError(r.err)
                 THEN Imported("IOError: incorrect file format", r.err, opens, 0, r)
                 ELSE Imported(r.err, r.err, opens, 1, r)
    ELSE IF Ext(file_name) = ".pts"
    THEN IF file.status = "unreadable"
         THEN Imported("IOError: Could not open file", "IOError", 1, 0, NoNc)
         ELSE LET r == _read_pts_file(file.nc)
              IN IF r.err = "" THEN Imported("", "", 1, 0, r)
                 ELSE IF IsIOError(r.err)
                 THEN Imported("IOError: Could not open file", r.err, 1, 0, r)
                 ELSE Imported(r.err, r.err, 1, 1, r)
    ELSE Imported("IOError: Extension is unknown", "", 0, 0, NoNc)

\* Geospatial_data.export_points_file(file_name, absolute): the error, the
\* file written if one was opened, and the handles left open
export_points_file(R, self, file_name, absolute, order) ==
    LET NotWritten(e) == [err |-> e, opened |-> FALSE, file |-> NoFile, leaked |-> 0]
    IN IF Ext(file_name) \notin {".xya", ".pts"} THEN NotWritten("IOError: Unknown file type")
       \* self.geo_reference is None after import_points_file read a file
       \* without a geo reference: None.get_absolute
       ELSE IF absolute /\ self.geo_reference = None THEN NotWritten("AttributeError")
       ELSE LET p == get_data_points(R, self, absolute, NoneObj)
                geo_reference == IF absolute \/ self.geo_reference = None THEN NoneObj
                                 ELSE Obj(self.geo_reference, R[self.geo_reference])
            IN IF p.err # "" THEN NotWritten(p.err)
               ELSE IF Ext(file_name) = ".xya"
               THEN LET w == _write_xya_file(p.val, self.attributes, geo_reference, order)
                    IN [err |-> w.err, opened |-> TRUE, file |-> TextFile(w.lines),
                        leaked |-> IF w.closed THEN 0 ELSE 1]
               ELSE [err |-> "", opened |-> TRUE,
                     file |-> NcFile(_write_pts_file(p.val, self.attributes, geo_reference)),
                     leaked |-> 0]

\* at most this many file handles are left open
MaxOpen == 1

\* the orders in which a dictionary may list the keys given
Orders(keys) == {o \in SeqsOf(keys, Cardinality(keys)) : Range(o) = keys}

\* every attribute has as many values as there are points, and there is a point
Aligned(self) ==
    /\ NumPoints(self.data_points) > 0
    /\ \A k \in self.attributes.keys :
          Len(self.attributes.vals[k]) = NumPoints(self.data_points)

\* a call that reads or writes a file
FileCall(op, n, file_name, delimiter, absolute, err, inner, opens) ==
    [NoCall EXCEPT !.op = op, !.name = n, !.file_name = file_name, !.delimiter = delimiter,
                   !.absolute = absolute, !.err = err, !.inner = inner, !.opens = opens]

\* n.export_points_file(file_name, absolute), for n among names and file_name
\* among targets.  A .pts file is written for objects with points and
\* attributes of equal length only
CallExport(names, targets) ==
    /\ Idle
    /\ refs' = refs
    /\ \E n \in Bound(sets) \cap names, file_name \in targets, absolute \in BOOLEAN :
       \E order \in Orders(sets[n].attributes.keys) :
        /\ fs.files[file_name].status # "unreadable"
        /\ Ext(file_name) = ".pts" => Aligned(sets[n])
        /\ \E r \in {export_points_file(refs, sets[n], file_name, absolute, order)} :
             /\ fs.open + r.leaked <= MaxOpen
             /\ last' = FileCall("export_points_file", n, file_name, "", absolute,
                                 r.err, "", IF r.opened THEN 1 ELSE 0)
             \* self.get_data_points(absolute) of lines 543-562
             /\ sets' = IF r.opened
                        THEN Touched(sets, n, data_points_after(refs, sets[n], absolute, NoneObj))
                        ELSE sets
             /\ fs' = [files |-> IF r.opened THEN [fs.files EXCEPT ![file_name] = r.file]
                                 ELSE fs.files,
                       open |-> fs.open + r.leaked]

\* B = Geospatial_data(file_name = f, delimiter = d), as the first call of a
\* statement or right after an export
CallConstructFromFile(sources) ==
    /\ Idle \/ (last.op = "export_points_file" /\ last.err = "")
    /\ \E file_name \in sources, delimiter \in {"", ",", " "} :
       \E i \in {import_points_file(fs.files, file_name, delimiter)} :
        /\ fs.open + i.leaked <= MaxOpen
        /\ fs' = [fs EXCEPT !.open = @ + i.leaked]
        /\ IF i.err # ""
           THEN /\ last' = FileCall("Geospatial_data", "B", file_name, delimiter, FALSE,
                                    i.err, i.inner, i.opens)
                /\ UNCHANGED <<refs, sets>>
           ELSE \* check_data_points, set_attributes and set_geo_reference of what
                \* was read, as for arguments given in memory
                \E r \in {Geospatial_data(refs, i.data_points, i.attributes,
                                          i.geo_reference, NoName)} :
                /\ last' = FileCall("Geospatial_data", "B", file_name, delimiter, FALSE,
                                    r.err, "", i.opens)
                /\ IF r.err = ""
                   THEN \E b \in {Bind(refs, sets, "B", r.obj, r.geo_reference)} :
                            refs' = b.refs /\ sets' = b.sets
                   ELSE UNCHANGED <<refs, sets>>

\* n.import_points_file(file_name, delimiter) on an existing object, for n
\* among names: the object takes what was read as it is
CallImportPointsFile(names, sources) ==
    /\ Idle
    /\ \E n \in Bound(sets) \cap names, file_name \in sources, delimiter \in {"", ",", " "} :
       \E i \in {import_points_file(fs.files, file_name, delimiter)} :
        /\ fs.open + i.leaked <= MaxOpen
        /\ fs' = [fs EXCEPT !.open = @ + i.leaked]
        /\ last' = FileCall("import_points_file", n, file_name, delimiter, FALSE,
                            i.err, i.inner, i.opens)
        /\ IF i.err # ""
           THEN UNCHANGED <<refs, sets>>
           ELSE LET obj == [sets[n] EXCEPT !.data_points = i.data_points,
                                           !.attributes = Dict(i.attributes.keys,
                                                               i.attributes.vals),
                                           !.geo_reference = None]
                IN IF IsNone(i.geo_reference)
                   THEN /\ sets' = [sets EXCEPT ![n] = obj]
                        /\ refs' = Collect(refs, [sets EXCEPT ![n] = obj])
                   ELSE \E b \in {Bind(refs, sets, n, obj, i.geo_reference)} :
                            refs' = b.refs /\ sets' = b.sets

\* points given to the constructor: none, one and two
FilePointInputs == {Arr(<<0, 2>>, <<>>), Arr(<<1, 2>>, <<1, 0>>), Arr(<<2, 2>>, <<0, 1, 1, 1>>)}

\* attributes given with n points: None, elevation and friction with n
\* values each, and a single sequence of n - 1 values
FileAttributeInputs(n) ==
    {NoAttrInput} \cup (DictInputs(n, {"elevation", "friction"}) \ DictInputs(n, {"elevation"}))
    \cup (IF n > 0 THEN {ListInput(n, n - 1)} ELSE {})

\* a program that builds an object A, exports it, imports files into B and
\* exports B as text
NextFile ==
    \/ /\ \A f \in FileNames : fs.files[f] = InitialFiles[f]
       /\ ~sets["B"].live
       /\ ConstructFrom({"A"}, FilePointInputs, [k \in 0..MaxLen |-> FileAttributeInputs(k)],
                        ClipGeoRefArgs, {NoName})
    \/ CallExport({"A"}, {"a.xya", "a.pts", "b.txt"})
    \/ CallExport({"B"}, {"a.xya"})
    \/ CallConstructFromFile(FileNames)
    \/ CallImportPointsFile({"B"}, FileNames)
    \/ Return

SpecFile == Init /\ [][NextFile]_vars

(***************************************************************************)
(* Files: export, import and what comes back                               *)
(***************************************************************************)

\* the step that imports, with the default delimiter, the file the step
\* before it exported without error
ReadsBack ==
    /\ last.op = "export_points_file"
    /\ last.err = ""
    /\ last'.op = "Geospatial_data"
    /\ last'.file_name = last.file_name
    /\ last'.delimiter = ""

\* the absolute points of n
AbsPoints(R, S, n) == get_data_points(R, S[n], TRUE, NoneObj).val

\* C15: exporting a PointSet with export_points_file and importing the
\* written file, for .xya and .pts and for absolute True and False, yields a
\* PointSet with the same absolute points in the same order, the same
\* attribute names and the same attribute values.
C15_RoundTrip ==
    [][(ReadsBack /\ last.name = "A") =>
          /\ last'.err = ""
          /\ AbsPoints(refs', sets', "B") = AbsPoints(refs, sets, "A")
          /\ sets'["B"].attributes.keys = sets["A"].attributes.keys
          /\ sets'["B"].attributes.vals = sets["A"].attributes.vals]_vars

\* the geo reference block of a written file, None if it has none
BlockOf(file) ==
    IF file.kind = "nc" THEN file.nc.geo_reference
    ELSE IF \E i \in DOMAIN file.lines : file.lines[i] = TITLE
    THEN LET i == CHOOSE i \in DOMAIN file.lines : file.lines[i] = TITLE
         IN Obj(0, Geo_reference(file.lines[i + 1].fields[1].v, file.lines[i + 2].fields[1].v,
                                 file.lines[i + 3].fields[1].v))
    ELSE NoneObj

\* C16: export with absolute=False writes the geo reference block, and
\* importing the file yields the same zone, x-origin and y-origin and the
\* same relative points; export with absolute=True writes no block, and
\* importing the file succeeds with the default geo reference (unset zone,
\* origin (0, 0)) and the absolute points.  For the text and the binary
\* format.
C16_AbsoluteFlag ==
    [][(ReadsBack /\ last.name = "A") =>
          LET block == BlockOf(fs.files[last.file_name])
              A == GeoOf(refs, sets, "A")
          IN /\ IF last.absolute THEN IsNone(block)
                ELSE ~IsNone(block) /\ block.g = Geo_reference(A.zone, A.xllcorner, A.yllcorner)
             /\ last'.err = ""
             /\ GeoOf(refs', sets', "B") =
                   IF last.absolute THEN Geo_reference(DEFAULT_ZONE, 0, 0)
                   ELSE Geo_reference(A.zone, A.xllcorner, A.yllcorner)
             /\ sets'["B"].data_points =
                   IF last.absolute THEN AbsPoints(refs, sets, "A")
                   ELSE sets["A"].data_points]_vars

\* C17: every file handle opened by import_points_file, _read_xya_file,
\* _read_pts_file, _write_xya_file and _write_pts_file is closed when the
\* operation returns, on every exit path: normal return, header mismatch,
\* malformed number, column-count mismatch, missing variable, and a failure
\* while writing a row.
C17_HandlesClosed == fs.open = 0

\* the line of a text file that begins with '#', 0 if there is none
MarkerLine(lines) ==
    IF \E i \in DOMAIN lines : lines[i].mark \in {"#", "#g"}
    THEN CHOOSE i \in DOMAIN lines :
            /\ lines[i].mark \in {"#", "#g"}
            /\ \A j \in 1..(i - 1) : lines[j].mark \notin {"#", "#g"}
    ELSE 0

\* the marker line is not '#geo reference'
WrongMarker(lines) == MarkerLine(lines) # 0 /\ lines[MarkerLine(lines)] # TITLE

\* a coordinate or value of a row, or the zone or an origin of the block, is
\* not the text of a number
BadNumber(lines) ==
    LET m == MarkerLine(lines)
        rows == 2..(IF m = 0 THEN Len(lines) ELSE m - 1)
        block == {j \in (m + 1)..(m + 3) : m # 0 /\ j <= Len(lines)}
    IN \E j \in rows \cup block : \E k \in DOMAIN lines[j].fields : ~lines[j].fields[k].num

\* the call parsed the .xya file it names with the delimiter the file uses
ParsedText ==
    /\ last.op \in {"Geospatial_data", "import_points_file"}
    /\ last.file_name # ""
    /\ Ext(last.file_name) = ".xya"
    /\ fs.files[last.file_name].status = "ok"
    /\ last.delimiter = ","

\* C18: when the text format is parsed, a marker line that differs from
\* '#geo reference' makes parsing fail with TitleError, and a zone, origin or
\* coordinate field that is no number makes it fail with ParsingError; no
\* other error kind is produced for these inputs.
C18_ParseErrorKinds ==
    ParsedText =>
        LET lines == fs.files[last.file_name].lines
        IN /\ WrongMarker(lines) => last.inner = "TitleError"
           /\ (BadNumber(lines) /\ ~WrongMarker(lines)) => last.inner = "ParsingError"

\* the call read the file it names
Imports == last.op \in {"Geospatial_data", "import_points_file"} /\ last.file_name # ""

\* what one parse of the .xya file named by the call raises, "" if nothing
ParseOnce(delimiter) ==
    _read_xya_file(fs.files[last.file_name].lines, delimiter).err

\* C19 as the specification states it: the file is opened and parsed at
\* most once, and the error of that attempt is the one reported.
C19_NeverReopened == Imports => last.opens <= 1

\* C19: import_points_file opens the file at most twice.  It opens a .xya
\* file a second time exactly when no delimiter was given and the parse with
\* ',' raised TitleError; it then parses it with ' ' and the outcome of
\* that second parse is the one the caller gets.  With a delimiter, or
\* after any other error, there is one attempt and its error is reported.
C19_RetriesOnTitleError ==
    (Imports /\ Ext(last.file_name) = ".xya" /\ fs.files[last.file_name].status = "ok") =>
        LET again == last.delimiter = "" /\ ParseOnce(",") = "TitleError"
        IN /\ last.opens = (IF again THEN 2 ELSE 1)
           /\ last.inner = ParseOnce(IF again THEN " "
                                     ELSE IF last.delimiter = "" THEN "," ELSE last.delimiter)

\* a file with fields separated by spaces, imported without a delimiter, is
\* read at the second attempt
C19_Witness ==
    /\ Imports
    /\ last.file_name = "space.xya"
    /\ last.delimiter = ""
    /\ last.opens = 2
    /\ last.err = ""
    /\ NumPoints(sets[last.name].data_points) = 1

\* C20: import_points_file reports a missing or inaccessible file before it
\* inspects the extension or opens the file; for an existing file whose
\* suffix is neither .xya nor .pts it fails with the unsupported-extension
\* error, and export_points_file with such a suffix fails with the same
\* kind of error and creates or writes no file; in each failing case the
\* points, attributes and geo_reference of the PointSet are unchanged.
C20_MissingOrUnknown ==
    [][(last'.file_name # "" /\ last'.op # last.op) =>
         LET f == last'.file_name
             missing == fs.files[f].status \in {"absent", "unreadable"}
             unknown == Ext(f) \notin {".xya", ".pts"}
         IN IF last'.op = "export_points_file"
            THEN unknown => /\ last'.err = "IOError: Unknown file type"
                            /\ last'.opens = 0
                            /\ fs'.files = fs.files
                            /\ sets' = sets /\ refs' = refs
            ELSE /\ missing => /\ last'.err = "IOError: does not exist"
                               /\ last'.opens = 0
                               /\ sets' = sets /\ refs' = refs
                 /\ (unknown /\ ~missing) => /\ last'.err = "IOError: Extension is unknown"
                                             /\ last'.opens = 0
                                             /\ sets' = sets /\ refs' = refs]_vars

----------------------------------------------------------------------------
(* Construction from points, a file, or latitudes and longitudes *)

\* anuga.coordinate_transforms.redfearn.convert_from_latlon_to_utm for
\* sequences of equal length, not empty: the projected points, one per
\* pair, and the zone of the first longitude
convert_from_latlon_to_utm(latitudes, longitudes) ==
    [points |-> Arr(<<Len(latitudes), 2>>,
                    [k \in 1..(2 * Len(latitudes)) |->
                        IF k % 2 = 1 THEN longitudes[(k + 1) \div 2]
                        ELSE latitudes[k \div 2]]),
     zone |-> 55 + (longitudes[1] % 2)]

\* ravel(lats_longs[:, c:c+1]) for c = 1, 2
Column(a, c) == [i \in 1..a.shape[1] |-> At(a, i, c)]

\* the outcome of _set_using_lat_long: the error, or data_points and the
\* new Geo_reference
LatLong(err, points, zone) ==
    [err |-> err, data_points |-> points,
     geo_reference |-> IF err = "" THEN Obj(0, Geo_reference(zone, 0, 0)) ELSE NoneObj]

\* Geospatial_data._set_using_lat_long(latitudes, longitudes, geo_reference,
\* data_points, points_are_lats_longs)
_set_using_lat_long(a) ==
    LET given == a.data_points # NonePoints
        \* with points_are_lats_longs the columns of data_points replace the
        \* arguments latitudes and longitudes
        latitudes == IF a.points_are_lats_longs /\ given
                     THEN SomeSeq(Column(a.data_points, 1)) ELSE a.latitudes
        longitudes == IF a.points_are_lats_longs /\ given
                      THEN SomeSeq(Column(a.data_points, 2)) ELSE a.longitudes
    IN IF ~IsNone(a.geo_reference)
       THEN LatLong("ValueError: A georeference is specified", NoArr, 0)
       ELSE IF given /\ ~a.points_are_lats_longs
       THEN LatLong("ValueError: Data points are specified", NoArr, 0)
       ELSE IF a.points_are_lats_longs /\ ~given
       THEN LatLong("ValueError: Data points are not specified", NoArr, 0)
       ELSE IF latitudes.none /\ longitudes.none
       THEN LatLong("ValueError: Latitudes and Longitudes are not", NoArr, 0)
       ELSE IF latitudes.none
       THEN LatLong("ValueError: latitudes aren't", NoArr, 0)
       ELSE IF longitudes.none
       THEN LatLong("ValueError: longitudes aren't", NoArr, 0)
       ELSE LET c == convert_from_latlon_to_utm(latitudes.v, longitudes.v)
            IN LatLong("", c.points, c.zone)

\* the outcome of __init__: the error, the new object and the
\* Geo_reference it holds, and what import_points_file did
Constructed(r, i) ==
    [err |-> r.err, obj |-> r.obj, geo_reference |-> r.geo_reference,
     inner |-> i.inner, opens |-> i.opens, leaked |-> i.leaked]

\* Geospatial_data.__init__ with all its arguments
Geospatial_data__init__(R, files, a) ==
    LET file_name == IF a.data_name # "" THEN a.data_name ELSE a.file_name
        NoImport == [inner |-> "", opens |-> 0, leaked |-> 0]
        Failed(e) == [err |-> e, obj |-> NoSet, geo_reference |-> NoneObj]
    IN IF file_name = ""
       THEN IF a.delimiter # ""
            THEN Constructed(Failed("ValueError: No file specified yet a delimiter"), NoImport)
            ELSE IF ~a.latitudes.none \/ ~a.longitudes.none \/ a.points_are_lats_longs
            THEN LET l == _set_using_lat_long(a)
                 IN IF l.err # "" THEN Constructed(Failed(l.err), NoImport)
                    ELSE Constructed(Geospatial_data(R, l.data_points, a.attributes,
                                                     l.geo_reference, NoName), NoImport)
            ELSE Constructed(Geospatial_data(R, a.data_points, a.attributes,
                                             a.geo_reference, NoName), NoImport)
       \* whatever else was given is dropped
       ELSE LET i == import_points_file(files, file_name, a.delimiter)
            IN IF i.err # "" THEN Constructed(Failed(i.err), i)
               ELSE Constructed(Geospatial_data(R, i.data_points, i.attributes,
                                                i.geo_reference, NoName), i)

\* the ValueError raised for a combination of arguments
ValueErrors ==
    {"ValueError", "ValueError: No file specified yet a delimiter",
     "ValueError: A georeference is specified", "ValueError: Data points are specified",
     "ValueError: Data points are not specified",
     "ValueError: Latitudes and Longitudes are not", "ValueError: latitudes aren't",
     "ValueError: longitudes aren't"}

\* the combinations of arguments the program passes
InitArgs ==
    {a \in [data_points : {NonePoints, Arr(<<1, 2>>, <<1, 0>>), Arr(<<2, 2>>, <<0, 1, 1, 1>>)},
            data_name : {"", "space.xya"},
            attributes : {NoAttrInput},
            geo_reference : ClipGeoRefArgs,
            file_name : {"", "space.xya", "none.xya"},
            delimiter : {"", " "},
            latitudes : {NoneSeq, SomeSeq(<<1>>)},
            longitudes : {NoneSeq, SomeSeq(<<0>>), SomeSeq(<<1>>)},
            points_are_lats_longs : BOOLEAN] :
        a.data_name # "" => a.data_points = NonePoints}

\* n = Geospatial_data(data_points, attributes, geo_reference, None,
\* file_name, delimiter, latitudes, longitudes, points_are_lats_longs)
CallInit(names) ==
    /\ Idle
    /\ \E n \in names, a \in InitArgs :
       \E r \in {Geospatial_data__init__(refs, fs.files, a)} :
        /\ fs.open + r.leaked <= MaxOpen
        /\ fs' = [fs EXCEPT !.open = @ + r.leaked]
        /\ last' = [NoCall EXCEPT !.op = "Geospatial_data", !.name = n, !.err = r.err,
                                  !.args = a, !.inner = r.inner, !.opens = r.opens]
        /\ IF r.err = ""
           THEN \E b \in {Bind(refs, sets, n, r.obj, r.geo_reference)} :
                    refs' = b.refs /\ sets' = b.sets
           ELSE UNCHANGED <<refs, sets>>

\* a program that constructs A again and again
NextInit ==
    \/ CallInit({"A"})
    \/ Return

SpecInit == Init /\ [][NextInit]_vars

\* the sources of points an argument list supplies: explicit points, a file
\* path, latitudes and longitudes (explicit points flagged as latitudes and
\* longitudes count as the latter)
Sources(a) ==
    {s \in {"points", "path", "latlong"} :
        \/ s = "points" /\ a.data_points # NonePoints /\ ~a.points_are_lats_longs
        \/ s = "path" /\ (a.file_name # "" \/ a.data_name # "")
        \/ s = "latlong" /\ (~a.latitudes.none \/ ~a.longitudes.none
                              \/ a.points_are_lats_longs)}

\* C21: constructing a PointSet succeeds only when exactly one of explicit
\* points, a file path and latitudes/longitudes is supplied; with none of
\* them, or more than one, it fails with the constructor's ValueError.
C21_ExactlyOneSource ==
    (last.op = "Geospatial_data" /\ Cardinality(Sources(last.args)) # 1) =>
        last.err \in ValueErrors

\* the call constructs from latitudes and longitudes: no file path and no
\* delimiter, and latitudes, longitudes or points_are_lats_longs given
FromLatLong ==
    /\ last.op = "Geospatial_data"
    /\ Sources(last.args) \in {{"latlong"}, {"latlong", "points"}}
    /\ last.args.delimiter = ""

\* exactly one of latitudes and longitudes is given
OnlyOne(a) == a.latitudes.none # a.longitudes.none

\* the latitudes and longitudes the projection is given
Projected(a) ==
    IF a.points_are_lats_longs
    THEN convert_from_latlon_to_utm(Column(a.data_points, 1), Column(a.data_points, 2))
    ELSE convert_from_latlon_to_utm(a.latitudes.v, a.longitudes.v)

\* what C22 says of an explicit geo_reference, of explicit points without
\* points_are_lats_longs, and of a success
LatLongContract ==
    LET a == last.args
    IN /\ ~IsNone(a.geo_reference) => last.err = "ValueError: A georeference is specified"
       /\ (a.data_points # NonePoints /\ ~a.points_are_lats_longs) => last.err \in ValueErrors
       /\ last.err = "" =>
             /\ GeoOf(refs, sets, last.name) = Geo_reference(Projected(a).zone, 0, 0)
             /\ sets[last.name].data_points = Projected(a).points

\* C22: constructing from latitudes and longitudes fails with ValueError
\* when a geo_reference is also supplied, before every other check of these arguments; it fails with ValueError
\* when only one of latitudes and longitudes is given or when explicit
\* points are given without points_are_lats_longs; on success the zone is
\* the one the projection returns and the origin is (0, 0).
C22_LatLongChecks ==
    FromLatLong => /\ LatLongContract
                   /\ OnlyOne(last.args) => last.err \in ValueErrors

----------------------------------------------------------------------------
(* Merges that fail, and what reading leaves behind *)

\* C23: a merge that fails, from a zone mismatch or from an attribute
\* mismatch, leaves both operands as they were: the zone and the origin of
\* each operand's geo_reference, its stored points and its attributes.
C23_FailedMergeKeepsOperands ==
    [][(Idle /\ last'.op = "__add__" /\ last'.err # "") =>
          \A n \in {last'.name, last'.name2} :
             /\ sets'[n] = sets[n]
             /\ GeoOf(refs', sets', n) = GeoOf(refs, sets, n)]_vars

\* a program that builds A, reads it in every way, clips, merges and
\* exports it
NextFrame ==
    \/ ConstructFrom({"A"}, {Arr(<<1, 2>>, <<1, 0>>)}, [k \in 0..MaxLen |-> ElevationInput(k)],
                     ClipGeoRefArgs, {NoName})
    \/ CallGetDataPoints({NoneObj, Obj(0, Geo_reference(55, 0, MaxCoord))})
    \/ CallClip({"A"})
    \/ CallClipOutside({"A"})
    \/ CallAdd
    \/ CallExport({"A"}, {"a.xya"})
    \/ Return

SpecFrame == Init /\ [][NextFrame]_vars

\* the calls that read the stored points
FrameOps == {"get_data_points", "clip", "clip_outside", "__add__", "export_points_file"}

----------------------------------------------------------------------------
(* A single point given flat, and comparison, checked under SpecGeo *)

\* C25: change_points_geo_ref and get_absolute accept a single point given
\* as a flat sequence of two elements and treat it as a 1 x 2 input: each
\* returns the translated coordinates of that one point instead of failing.
C25_FlatPointAccepted ==
    (last.op \in {"change_points_geo_ref", "get_absolute"} /\ last.arg.shape = <<2>>) =>
        LET self == refs[last.self]
            from == IF last.op = "get_absolute" \/ last.other = last.self
                    THEN Geo_reference(DEFAULT_ZONE, 0, 0)
                    ELSE IF last.other = None THEN Geo_reference(DEFAULT_ZONE, 0, 0)
                    ELSE refs[last.other]
            sign == IF last.op = "get_absolute" THEN 1
                    ELSE IF last.other = last.self THEN 0 ELSE -1
        IN /\ last.err = ""
           /\ last.val = Arr(<<1, 2>>,
                             <<last.arg.flat[1] + from.xllcorner + sign * self.xllcorner,
                               last.arg.flat[2] + from.yllcorner + sign * self.yllcorner>>)

----------------------------------------------------------------------------
(* Comparison of Geo_reference objects *)

\* Geo_reference.__cmp__(self, other): 1 for None; otherwise 0 unless one of
\* the three comparisons fails, and each of them compares a field of self
\* with the same field of self
__cmp__(self, other) ==
    IF IsNone(other) THEN 1
    ELSE LET cmp0 == 0
             cmp1 == IF ~(self.g.xllcorner = self.g.xllcorner) THEN 1 ELSE cmp0
             cmp2 == IF ~(self.g.yllcorner = self.g.yllcorner) THEN 1 ELSE cmp1
             cmp3 == IF ~(self.g.zone = self.g.zone) THEN 1 ELSE cmp2
         IN cmp3

\* G.__cmp__(H) for two Geo_reference objects, or for H = None; val is the
\* integer returned
CallCmp ==
    /\ Idle
    /\ UNCHANGED fs
    /\ \E i \in Live(refs), j \in Live(refs) \cup {None} :
        /\ last' = Call("__cmp__", i, j, FALSE, NoArr,
                        Ok(Arr(<<>>, <<__cmp__(Deref(refs, i), Deref(refs, j))>>)))
        /\ UNCHANGED <<refs, sets>>

NextCmp ==
    \/ NewGeoReference
    \/ CallReconcileZones
    \/ CallCmp
    \/ Return

SpecCmp == Init /\ [][NextCmp]_vars

\* the comparison reported its operands equal
ReportedEqual == last.val.flat[1] = 0

\* C26: __cmp__ reports two Geo_reference values equal exactly when their
\* zone, xllcorner and yllcorner are all equal, reports them different when
\* any of the three differs, and reports a Geo_reference as different from
\* None.
C26_EqualIffSameOrigin ==
    last.op = "__cmp__" =>
        IF last.other = None THEN ~ReportedEqual
        ELSE ReportedEqual <=>
                (/\ refs[last.self].zone = refs[last.other].zone
                 /\ refs[last.self].xllcorner = refs[last.other].xllcorner
                 /\ refs[last.self].yllcorner = refs[last.other].yllcorner)

----------------------------------------------------------------------------
(* Probing for the MPI compiler flags (anuga/parallel/setup.py) *)

\* A string of a command line is the sequence of its blank-separated words,
\* '' the empty sequence; a string of blanks only never occurs.  A word is an
\* option (its first two characters), the rest of it up to the first '=',
\* and the further '='-separated parts
Word2(opt, rest) == [opt |-> opt, rest |-> rest, val |-> <<>>]

\* ' -fPIC'
FPIC == <<Word2("-f", "PIC")>>

\* the truth value of a string
Truthy(s) == Len(s) > 0

\* the commands of the three probes; the third names two temporary files
MPICC_SHOW == "mpicc -show"

MPICC_INFO == "mpicc -compile_info -link_info"

MPICC_HACK == "mpicc -show;mpicc -echo -c tmp.c -o tmp.o"

ProbeCmds == {MPICC_SHOW, MPICC_INFO, MPICC_HACK}

ProbeOrder == <<MPICC_SHOW, MPICC_INFO, MPICC_HACK>>

\* what a command met: Popen raised, or the command wrote stdout
Raised == [raised |-> TRUE, stdout |-> <<>>]

Stdout(s) == [raised |-> FALSE, stdout |-> s]

RunResults ==
    {Raised, Stdout(<<>>),
     Stdout(<<Word2("", "gcc"), Word2("-I", "/mpi/include"), Word2("-l", "mpi")>>),
     Stdout(<<Word2("", "cc"), Word2("-l", "mpich"), Word2("-l", "mpich"),
              Word2("-L", "/mpich/lib"), Word2("-U", "DEBUG"),
              [opt |-> "-D", rest |-> "N", val |-> <<"1">>], Word2("-D", "MPI")>>)}

\* _run_command(cmd): the stdout of the command, '' when anything raised
_run_command(run, cmd) == IF run[cmd].raised THEN <<>> ELSE run[cmd].stdout

\* _get_mpi_cmd(): the output returned and the commands that were run
_get_mpi_cmd(run) ==
    LET output1 == _run_command(run, MPICC_SHOW) \o FPIC
        output2 == _run_command(run, MPICC_INFO)
        output3 == _run_command(run, MPICC_HACK)
    IN IF Truthy(output1) THEN [output |-> output1, ran |-> <<MPICC_SHOW>>]
       ELSE IF Truthy(output2) THEN [output |-> output2, ran |-> <<MPICC_SHOW, MPICC_INFO>>]
       ELSE [output |-> IF Truthy(output3) THEN output3 ELSE <<>>,
             ran |-> <<MPICC_SHOW, MPICC_INFO, MPICC_HACK>>]

\* uniq_arr(arr): the first occurrence of every value, in order
RECURSIVE uniq_arr(_)
uniq_arr(arr) ==
    IF arr = <<>> THEN <<>>
    ELSE LET ret == uniq_arr(SubSeq(arr, 1, Len(arr) - 1))
             i == arr[Len(arr)]
         IN IF \E k \in 1..Len(ret) : ret[k] = i THEN ret ELSE Append(ret, i)

\* f[2:] of every flag that starts with opt
Rests(flags, opt) ==
    LET sel == SelectSeq(flags, LAMBDA f : f.opt = opt)
    IN [k \in 1..Len(sel) |-> sel[k].rest]

\* the dictionary get_mpi_flags returns for an output; a macro without '='
\* is paired with None
FlagsOf(output) ==
    LET flags == uniq_arr(output)
        defs == SelectSeq(flags, LAMBDA f : f.opt = "-D")
    IN [inc_dirs |-> Rests(flags, "-I"), lib_dirs |-> Rests(flags, "-L"),
        libs |-> Rests(flags, "-l"), undef_macros |-> Rests(flags, "-U"),
        def_macros |-> [k \in 1..Len(defs) |->
                           IF defs[k].val = <<>> THEN <<defs[k].rest, "None">>
                           ELSE <<defs[k].rest>> \o defs[k].val]]

\* 'cc -L/usr/opt/mpi -lmpi -lelan'
DefaultOutput ==
    <<Word2("", "cc"), Word2("-L", "/usr/opt/mpi"), Word2("-l", "mpi"), Word2("-l", "elan")>>

\* the output built on win32 from MPICH_DIR, as shlex.split reads it
Win32Output(mpi_dir, sdk) ==
    LET sdk_prefix == IF sdk THEN mpi_dir \o "\\SDK" ELSE mpi_dir
        lib_name == IF sdk THEN "mpich" ELSE "mpi"
    IN <<Word2("", "gcc"), Word2("-L", sdk_prefix \o "\\lib"), Word2("-l", lib_name),
         Word2("-I", sdk_prefix \o "\\include")>>

\* the flags of the platform, used when the probes gave nothing; mpi_dir ""
\* is MPICH_DIR not set, sdk whether <MPICH_DIR>\SDK exists
PlatformDefault(platform, mpi_dir, sdk) ==
    IF platform = "win32"
    THEN IF mpi_dir = "" THEN [err |-> "SystemExit", output |-> <<>>]
         ELSE [err |-> "", output |-> Win32Output(mpi_dir, sdk)]
    ELSE [err |-> "", output |-> DefaultOutput]

\* get_mpi_flags()
get_mpi_flags(run, platform, mpi_dir, sdk) ==
    LET c == _get_mpi_cmd(run)
        d == IF ~Truthy(c.output) THEN PlatformDefault(platform, mpi_dir, sdk)
             ELSE [err |-> "", output |-> c.output]
    IN [err |-> d.err, ran |-> c.ran, output |-> c.output,
        flags |-> IF d.err = "" THEN FlagsOf(d.output) ELSE <<>>]

CallGetMpiCmd ==
    /\ Idle
    /\ \E run \in [ProbeCmds -> RunResults] :
        LET c == _get_mpi_cmd(run)
        IN last' = [NoCall EXCEPT !.op = "_get_mpi_cmd",
                                  !.mpi = [NoMpi EXCEPT !.run = run, !.ran = c.ran,
                                                        !.output = c.output]]
    /\ UNCHANGED <<refs, sets, fs>>

CallGetMpiFlags ==
    /\ Idle
    /\ \E run \in [ProbeCmds -> RunResults], platform \in {"linux2", "win32"},
          mpi_dir \in {"", "C:\\MPICH"}, sdk \in BOOLEAN :
        LET r == get_mpi_flags(run, platform, mpi_dir, sdk)
        IN last' = [NoCall EXCEPT !.op = "get_mpi_flags", !.err = r.err,
                                  !.mpi = [run |-> run, platform |-> platform,
                                           mpi_dir |-> mpi_dir, sdk |-> sdk, ran |-> r.ran,
                                           output |-> r.output, flags |-> r.flags]]
    /\ UNCHANGED <<refs, sets, fs>>

NextMpi ==
    \/ CallGetMpiCmd
    \/ CallGetMpiFlags
    \/ Return

SpecMpi == Init /\ [][NextMpi]_vars

\* the probe produced output
Produced(run, cmd) == ~run[cmd].raised /\ run[cmd].stdout # <<>>

\* the probes up to the first that produced output, all three when none did
ProbesDue(run) ==
    IF Produced(run, MPICC_SHOW) THEN <<MPICC_SHOW>>
    ELSE IF Produced(run, MPICC_INFO) THEN <<MPICC_SHOW, MPICC_INFO>>
    ELSE ProbeOrder

\* what the claim has _get_mpi_cmd return: the output of the first probe that
\* produced output (for 'mpicc -show' with ' -fPIC' appended), '' when none
OutputDue(run) ==
    LET due == ProbesDue(run)
        cmd == due[Len(due)]
    IN IF ~Produced(run, cmd) THEN <<>>
       ELSE IF cmd = MPICC_SHOW THEN run[cmd].stdout \o FPIC
       ELSE run[cmd].stdout

\* C27: _get_mpi_cmd tries 'mpicc -show', then 'mpicc -compile_info
\* -link_info', then the compile-a-stub hack, and returns the output of the
\* first probe that produced output, or '' when none did; a later probe runs
\* only when every earlier one produced no output, and when all fail
\* get_mpi_flags uses the platform default flags.
C27_ProbesInOrder ==
    last.op \in {"_get_mpi_cmd", "get_mpi_flags"} =>
        /\ last.mpi.ran = ProbesDue(last.mpi.run)
        /\ last.mpi.output = OutputDue(last.mpi.run)
        /\ (last.op = "get_mpi_flags" /\ OutputDue(last.mpi.run) = <<>>) =>
              LET d == PlatformDefault(last.mpi.platform, last.mpi.mpi_dir, last.mpi.sdk)
              IN /\ last.err = d.err
                 /\ d.err = "" => last.mpi.flags = FlagsOf(d.output)

====
